---- MODULE Spec2Model ----
(***************************************************************************)
(* A model of vtzero (geeknik/vtzero): the geometry decoder of             *)
(* include/vtzero/geometry.hpp and the feature builders of                 *)
(* include/vtzero/builder.hpp.                                             *)
(*                                                                         *)
(* Machine integers keep their width, scaled down: uint32_t / int32_t are  *)
(* WordBits wide and int64_t is twice that, so that the ratio between the  *)
(* coordinate width and the accumulator width is the one of the code.  The *)
(* command integer keeps its layout: the low 3 bits are the command id,    *)
(* the remaining WordBits - 3 bits are the count.                          *)
(*                                                                         *)
(* vtzero_assert is assert (types.hpp:21-25): a failed assertion ends the  *)
(* program at that statement.                                              *)
(***************************************************************************)
EXTENDS Integers, Sequences, FiniteSets, TLC

\* ---------------------------------------------------------------- bounds
WordBits == 8
MaxLen == 4
MaxLineTo == 3
MaxGroupLineTo == 2

\* ------------------------------------------------------ machine integers
Pow2(n) == 2 ^ n

UInt32Mod == Pow2(WordBits)
Int32Min == -Pow2(WordBits - 1)
Int32Max == Pow2(WordBits - 1) - 1
Int64Min == -Pow2(2 * WordBits - 1)
Int64Max == Pow2(2 * WordBits - 1) - 1

\* static_cast<uint32_t> / arithmetic on uint32_t
ToUInt32(v) == v % UInt32Mod

\* static_cast<int32_t>(int64_t): modular
ToInt32(v) == ((v - Int32Min) % UInt32Mod) + Int32Min

\* two's complement wrap of an int64_t result
WrapInt64(v) == ((v - Int64Min) % Pow2(2 * WordBits)) + Int64Min

InInt64(v) == Int64Min <= v /\ v <= Int64Max

\* protozero::decode_zigzag32: (v >> 1) ^ -(v & 1)
decode_zigzag32(v) == IF v % 2 = 0 THEN v \div 2 ELSE -((v + 1) \div 2)

\* protozero::encode_zigzag32: (v << 1) ^ (v >> 31), as uint32_t
encode_zigzag32(v) == ToUInt32(IF v >= 0 THEN 2 * v ELSE -2 * v - 1)

\* ------------------------------------------------------ command integers
command_integer(id, count) == ToUInt32((id % 8) + count * 8)

command_move_to(count) == command_integer(1, count)

command_line_to(count) == command_integer(2, count)

command_close_path(count) == command_integer(7, count)

get_command_id(ci) == ci % 8

get_command_count(ci) == ci \div 8

max_command_count == get_command_count(UInt32Mod - 1)

\* ----------------------------------------------------------------- points
Point(px, py, pz) == [x |-> px, y |-> py, z |-> pz]

Origin == Point(0, 0, 0)

det(a, b) == a.x * b.y - b.x * a.y

ring_type(sum) == IF sum > 0 THEN "outer" ELSE IF sum < 0 THEN "inner" ELSE "invalid"

\* ------------------------------------------------------- geometry streams
\* The integers the short streams are made of: MoveTo(0), LineTo(0),
\* MoveTo(1), LineTo(1), ClosePath(1), MoveTo(2).  In a coordinate place they
\* are the zig-zag codes of -1, 1, -5, 5, -8, -9.
Vals == {command_move_to(0), command_line_to(0), command_move_to(1),
         command_line_to(1), command_close_path(1), command_move_to(2)}

ShortStreams == UNION {[1..n -> Vals] : n \in 0..MaxLen}

\* Coordinate deltas at the ends of the int32_t range.
ExtDeltas == {<<encode_zigzag32(Int32Min), encode_zigzag32(Int32Min)>>,
              <<encode_zigzag32(Int32Max), encode_zigzag32(0)>>,
              <<encode_zigzag32(Int32Max), encode_zigzag32(Int32Max)>>,
              <<encode_zigzag32(-Int32Max), encode_zigzag32(Int32Max)>>}

RECURSIVE Flatten(_)
Flatten(ss) == IF ss = <<>> THEN <<>> ELSE Head(ss) \o Flatten(Tail(ss))

\* One ring: MoveTo(1) p LineTo(c) p^c ClosePath(1)
RingStreams ==
    UNION {{<<command_move_to(1)>> \o first \o <<command_line_to(c)>>
                \o Flatten(rest) \o <<command_close_path(1)>> :
              first \in ExtDeltas, rest \in [1..c -> ExtDeltas]} :
           c \in 0..MaxLineTo}

\* Small coordinate deltas, one tuple per point of a d-dimensional decoder:
\* (+1, +2), (-2, 0) and (+1, +2, +3), (-2, 0, -1)
PointDeltas(d) == IF d = 2 THEN {<<2, 4>>, <<3, 0>>} ELSE {<<2, 4, 6>>, <<3, 0, 1>>}

\* One linestring group: MoveTo(1) p LineTo(c) p^c
Groups(d) ==
    UNION {{<<command_move_to(1)>> \o first \o <<command_line_to(c)>> \o Flatten(rest) :
              first \in PointDeltas(d), rest \in [1..c -> PointDeltas(d)]} :
           c \in 0..MaxGroupLineTo}

Prefixes(S) == UNION {{SubSeq(s, 1, n) : n \in 0..Len(s)} : s \in S}

\* Two groups in a row, and every stream cut off inside them
LineStreams ==
    Prefixes({a \o b : a \in Groups(2), b \in Groups(2)})
        \cup Prefixes({a \o b : a \in Groups(3), b \in Groups(3)})

\* One ring of a 2-D polygon whose last integer has command id 7 and a
\* count of 0, 2 or max_command_count
CloseCounts == {0, 2, max_command_count}

CloseStreams ==
    UNION {{<<command_move_to(1)>> \o first \o <<command_line_to(c)>>
                \o Flatten(rest) \o <<command_close_path(n)>> :
              first \in PointDeltas(2), rest \in [1..c -> PointDeltas(2)], n \in CloseCounts} :
           c \in 0..MaxGroupLineTo}

\* commands whose count is above half the length of the stream
LargeCountStreams ==
    {<<command_move_to(max_command_count)>>,
     <<command_move_to(1), 2, 4, command_line_to(3)>>,
     <<command_move_to(1), 2, 4, command_line_to(max_command_count), 3, 0>>}

GeomStreams ==
    ShortStreams \cup RingStreams \cup LineStreams \cup CloseStreams \cup LargeCountStreams

\* The knot data of a geometry: the doubles it holds, and the bytes left
\* over when its size is not a multiple of sizeof(double)
NoKnots == [vals |-> <<>>, tail |-> 0]

KnotInputs ==
    {NoKnots, [vals |-> <<"k1">>, tail |-> 0], [vals |-> <<"k1", "k2">>, tail |-> 0],
     [vals |-> <<"k1">>, tail |-> 4]}

\* What reading one element past the end of the buffer yields when the
\* iterators are plain pointers.
Garbage == {0, UInt32Mod - 1}

\* -------------------------------------------------------------- variables
VARIABLES
    stream,     \* the geometry data, [m_it, m_end) of the decoder
    knots,      \* the knot data, [m_knots_it, m_knots_end) of the decoder
    script,     \* the calls of the program that writes a geometry and reads it back
    tile,       \* a tile that is read, the tile_builder and the calls made on them
    dims,       \* template parameter Dimensions
    op,         \* the decode operation run on the decoder
    dec,        \* the decoder's members m_it, m_cursor, m_max_count, m_command_id, m_count
    loc,        \* the locals of the running decode function
    dpc,        \* position in the running decode function
    calls,      \* the calls made on the geometry handler, in order
    outcome,    \* running, ok, or how the decode function was left
    layer,      \* layer_builder_impl: m_data, its pbf writer, m_num_features
    fb,         \* the feature builder in scope
    scope,      \* "none": no builder yet; "live": in scope; "gone": destroyed
    bout,       \* Running, or the assertion that ended the building program
    hist,       \* what was called on the builder, for the properties below
    geom,       \* the type of the geometry and the decode function called on it
    reader      \* a property value or property map that is read, and the calls made on it

decVars == <<stream, knots, dims, op, dec, loc, dpc, calls, outcome, geom, reader>>

bldVars == <<layer, fb, scope, bout, hist>>

vars ==
    <<tile, script, stream, knots, dims, op, dec, loc, dpc, calls, outcome, layer, fb, scope,
      bout, hist, geom, reader>>

m_end == Len(stream) + 1

Running == [kind |-> "running", what |-> ""]

Returned == [kind |-> "ok", what |-> ""]

geometry_exception(msg) == [kind |-> "geometry_exception", what |-> msg]

AssertFailed(msg) == [kind |-> "assertion", what |-> msg]

\* protozero's varint iterator throws at the end of its buffer
end_of_buffer_exception == [kind |-> "end_of_buffer_exception", what |-> ""]

\* undefined behaviour whose continuation is not modelled further
Undefined(msg) == [kind |-> "undefined", what |-> msg]

\* ---------------------------------------------------------------- decoder
geometry_decoder(max) ==
    [m_it |-> 1, m_knots_it |-> 1, m_cursor |-> Origin, m_max_count |-> ToUInt32(max),
     m_command_id |-> 0, m_count |-> 0]

count(d) == d.m_count

done(d) == d.m_it = m_end

Res(d, r, o) == [d |-> d, ret |-> r, out |-> o]

\* a next_command() that steps over the integer it refuses for its command id
next_command_consuming(d, expected_command) ==
    IF d.m_count # 0 THEN Res(d, FALSE, AssertFailed("m_count == 0"))
    ELSE IF d.m_it = m_end THEN Res(d, FALSE, Running)
    ELSE IF d.m_it > m_end THEN Res(d, FALSE, Undefined("read past the end"))
    ELSE LET ci == stream[d.m_it]
             d1 == [d EXCEPT !.m_command_id = get_command_id(ci), !.m_it = @ + 1]
         IN  IF d1.m_command_id # expected_command
             THEN Res(d1, FALSE, geometry_exception("expected command " \o ToString(expected_command)
                                                    \o " but got " \o ToString(d1.m_command_id)))
             ELSE IF expected_command = command_close_path(0)
             THEN IF get_command_count(ci) # 1
                  THEN Res(d1, FALSE, geometry_exception("ClosePath command count is not 1"))
                  ELSE Res(d1, TRUE, Running)
             ELSE LET d2 == [d1 EXCEPT !.m_count = get_command_count(ci)]
                  IN  IF d2.m_count > d2.m_max_count
                      THEN Res(d2, FALSE, geometry_exception("Max count too large"))
                      ELSE Res(d2, TRUE, Running)

\* a next_command() that takes a ClosePath with any count
next_command_any_close(d, expected_command) ==
    IF d.m_count # 0 THEN Res(d, FALSE, AssertFailed("m_count == 0"))
    ELSE IF d.m_it = m_end THEN Res(d, FALSE, Running)
    ELSE IF d.m_it > m_end THEN Res(d, FALSE, Undefined("read past the end"))
    ELSE LET ci == stream[d.m_it]
             d1 == [d EXCEPT !.m_command_id = get_command_id(ci)]
         IN  IF d1.m_command_id # expected_command
             THEN Res(d1, FALSE, geometry_exception("expected command " \o ToString(expected_command)
                                                    \o " but got " \o ToString(d1.m_command_id)))
             ELSE IF expected_command = command_close_path(0)
             THEN Res([d1 EXCEPT !.m_it = @ + 1], TRUE, Running)
             ELSE LET d2 == [d1 EXCEPT !.m_count = get_command_count(ci)]
                  IN  IF d2.m_count > d2.m_max_count
                      THEN Res(d2, FALSE, geometry_exception("Max count too large"))
                      ELSE Res([d2 EXCEPT !.m_it = @ + 1], TRUE, Running)

\* a next_command() that takes the end of the stream for a missing command
next_command_at_end(d, expected_command) ==
    IF d.m_count # 0 THEN Res(d, FALSE, AssertFailed("m_count == 0"))
    ELSE IF d.m_it = m_end
    THEN Res(d, FALSE, geometry_exception("expected command " \o ToString(expected_command)
                                          \o " but got " \o ToString(0)))
    ELSE next_command_any_close(d, expected_command)

\* a next_command() that takes every count
next_command_unbounded(d, expected_command) ==
    IF d.m_count # 0 THEN Res(d, FALSE, AssertFailed("m_count == 0"))
    ELSE IF d.m_it = m_end THEN Res(d, FALSE, Running)
    ELSE IF d.m_it > m_end THEN Res(d, FALSE, Undefined("read past the end"))
    ELSE LET ci == stream[d.m_it]
             d1 == [d EXCEPT !.m_command_id = get_command_id(ci)]
         IN  IF d1.m_command_id # expected_command
             THEN Res(d1, FALSE, geometry_exception("expected command " \o ToString(expected_command)
                                                    \o " but got " \o ToString(d1.m_command_id)))
             ELSE IF expected_command = command_close_path(0)
             THEN IF get_command_count(ci) # 1
                  THEN Res(d1, FALSE, geometry_exception("ClosePath command count is not 1"))
                  ELSE Res([d1 EXCEPT !.m_it = @ + 1], TRUE, Running)
             ELSE Res([d1 EXCEPT !.m_count = get_command_count(ci), !.m_it = @ + 1], TRUE, Running)

next_command(d, expected_command) ==
    IF d.m_count # 0 THEN Res(d, FALSE, AssertFailed("m_count == 0"))
    ELSE IF d.m_it = m_end THEN Res(d, FALSE, Running)
    ELSE IF d.m_it > m_end THEN Res(d, FALSE, Undefined("read past the end"))
    ELSE LET ci == stream[d.m_it]
             d1 == [d EXCEPT !.m_command_id = get_command_id(ci)]
         IN  IF d1.m_command_id # expected_command
             THEN Res(d1, FALSE, geometry_exception("expected command " \o ToString(expected_command)
                                                    \o " but got " \o ToString(d1.m_command_id)))
             ELSE IF expected_command = command_close_path(0)
             THEN IF get_command_count(ci) # 1
                  THEN Res(d1, FALSE, geometry_exception("ClosePath command count is not 1"))
                  ELSE Res([d1 EXCEPT !.m_it = @ + 1], TRUE, Running)
             ELSE LET d2 == [d1 EXCEPT !.m_count = get_command_count(ci)]
                  IN  IF d2.m_count > d2.m_max_count
                      THEN Res(d2, FALSE, geometry_exception("Max count too large"))
                      ELSE Res([d2 EXCEPT !.m_it = @ + 1], TRUE, Running)

\* move_cursor reads Dimensions integers; zs are the values the reads yield
move_cursor(d, zs) ==
    LET x == decode_zigzag32(zs[1]) + d.m_cursor.x
        y == decode_zigzag32(zs[2]) + d.m_cursor.y
        z == IF dims = 3 THEN decode_zigzag32(zs[3]) + d.m_cursor.z ELSE 0
    IN  [d EXCEPT !.m_it = @ + dims,
                  !.m_cursor = Point(ToInt32(x), ToInt32(y), ToInt32(z))]

\* a next_point() that leaves the count as it is
next_point_keeping_count(d) ==
    IF d.m_count = 0 THEN {Res(d, Origin, AssertFailed("m_count > 0"))}
    ELSE IF d.m_it = m_end \/ d.m_it + 1 = m_end
    THEN {Res(d, Origin, geometry_exception("too few points in geometry"))}
    ELSE IF d.m_it > m_end
    THEN {Res(d, Origin, Undefined("read past the end"))}
    ELSE IF d.m_it + dims <= m_end
    THEN {Res(move_cursor(d, SubSeq(stream, d.m_it, d.m_it + dims - 1)),
              move_cursor(d, SubSeq(stream, d.m_it, d.m_it + dims - 1)).m_cursor, Running)}
    ELSE {Res([d EXCEPT !.m_it = @ + 2], Origin, end_of_buffer_exception)}
         \cup {LET d1 == move_cursor(d, <<stream[d.m_it], stream[d.m_it + 1], g>>)
               IN  Res(d1, d1.m_cursor, Running) : g \in Garbage}

\* The set of ways next_point can end: the check looks at two integers
\* whatever Dimensions is, move_cursor then reads Dimensions of them.
next_point(d) ==
    IF d.m_count = 0 THEN {Res(d, Origin, AssertFailed("m_count > 0"))}
    ELSE IF d.m_it = m_end \/ d.m_it + 1 = m_end
    THEN {Res(d, Origin, geometry_exception("too few points in geometry"))}
    ELSE IF d.m_it > m_end
    THEN {Res(d, Origin, Undefined("read past the end"))}
    ELSE IF d.m_it + dims <= m_end
    THEN LET d1 == move_cursor(d, SubSeq(stream, d.m_it, d.m_it + dims - 1))
             d2 == [d1 EXCEPT !.m_count = @ - 1]
         IN  {Res(d2, d2.m_cursor, Running)}
    ELSE {Res([d EXCEPT !.m_it = @ + 2], Origin, end_of_buffer_exception)}
         \cup {LET d1 == move_cursor(d, <<stream[d.m_it], stream[d.m_it + 1], g>>)
                   d2 == [d1 EXCEPT !.m_count = @ - 1]
               IN  Res(d2, d2.m_cursor, Running) : g \in Garbage}

\* handler calls
Call(name, arg) == [f |-> name, a |-> arg]

NoLocals == [sum |-> 0, start_point |-> Origin, last_point |-> Origin]

\* sum += det(...): signed overflow is undefined; the builds either wrap or trap
AddInt64(a, b) ==
    IF InInt64(a + b) THEN {[v |-> a + b, out |-> Running]}
    ELSE {[v |-> WrapInt64(a + b), out |-> Running],
          [v |-> a, out |-> Undefined("signed integer overflow")]}

\* The decode function is left: by return or by an exception
Leave(d, o) ==
    /\ dec' = d
    /\ outcome' = o
    /\ dpc' = "done"
    /\ UNCHANGED <<stream, dims, op, loc, calls>>

\* ----------------------------------------------------------- decode_point
DecodePointBegin ==
    /\ op = "point" /\ dpc = "start" /\ outcome = Running
    /\ UNCHANGED <<bldVars, knots, script, tile, geom, reader>>
    /\ LET r == next_command(dec, command_move_to(0))
       IN  IF r.out # Running THEN Leave(r.d, r.out)
           ELSE IF ~r.ret
           THEN Leave(r.d, geometry_exception("expected MoveTo command (spec 4.3.4.2)"))
           ELSE IF count(r.d) = 0
           THEN Leave(r.d, geometry_exception("MoveTo command count is zero (spec 4.3.4.2)"))
           ELSE /\ dec' = r.d
                /\ calls' = Append(calls, Call("points_begin", count(r.d)))
                /\ dpc' = "points"
                /\ UNCHANGED <<stream, dims, op, loc, outcome>>

DecodePointPoint ==
    /\ op = "point" /\ dpc = "points" /\ outcome = Running
    /\ UNCHANGED <<bldVars, knots, script, tile, geom, reader>>
    /\ count(dec) > 0
    /\ \E r \in next_point(dec) :
          IF r.out # Running THEN Leave(r.d, r.out)
          ELSE /\ dec' = r.d
               /\ calls' = Append(calls, Call("points_point", r.ret))
               /\ UNCHANGED <<stream, dims, op, loc, dpc, outcome>>

DecodePointEnd ==
    /\ op = "point" /\ dpc = "points" /\ outcome = Running
    /\ UNCHANGED <<bldVars, knots, script, tile, geom, reader>>
    /\ count(dec) = 0
    /\ IF ~done(dec)
       THEN Leave(dec, geometry_exception("additional data after end of geometry (spec 4.3.4.2)"))
       ELSE /\ calls' = Append(calls, Call("points_end", 0))
            /\ outcome' = Returned
            /\ dpc' = "done"
            /\ UNCHANGED <<stream, dims, op, dec, loc>>

\* --------------------------------------------------------- decode_polygon
DecodePolygonMoveTo ==
    /\ op = "polygon" /\ dpc = "start" /\ outcome = Running
    /\ UNCHANGED <<bldVars, knots, script, tile, geom, reader>>
    /\ LET r == next_command(dec, command_move_to(0))
       IN  IF r.out # Running THEN Leave(r.d, r.out)
           ELSE IF ~r.ret THEN Leave(r.d, Returned)
           ELSE IF count(r.d) # 1
           THEN Leave(r.d, geometry_exception("MoveTo command count is not 1 (spec 4.3.4.4)"))
           ELSE /\ dec' = r.d
                /\ dpc' = "first"
                /\ UNCHANGED <<stream, dims, op, loc, calls, outcome>>

DecodePolygonFirst ==
    /\ op = "polygon" /\ dpc = "first" /\ outcome = Running
    /\ UNCHANGED <<bldVars, knots, script, tile, geom, reader>>
    /\ \E r \in next_point(dec) :
          IF r.out # Running THEN Leave(r.d, r.out)
          ELSE /\ dec' = r.d
               /\ loc' = [sum |-> 0, start_point |-> r.ret, last_point |-> r.ret]
               /\ dpc' = "lineto"
               /\ UNCHANGED <<stream, dims, op, calls, outcome>>

DecodePolygonLineTo ==
    /\ op = "polygon" /\ dpc = "lineto" /\ outcome = Running
    /\ UNCHANGED <<bldVars, knots, script, tile, geom, reader>>
    /\ LET r == next_command(dec, command_line_to(0))
       IN  IF r.out # Running THEN Leave(r.d, r.out)
           ELSE IF ~r.ret
           THEN Leave(r.d, geometry_exception("expected LineTo command (spec 4.3.4.4)"))
           ELSE /\ dec' = r.d
                /\ calls' = calls \o <<Call("ring_begin", ToUInt32(count(r.d) + 2)),
                                       Call("ring_point", loc.start_point)>>
                /\ dpc' = "ring"
                /\ UNCHANGED <<stream, dims, op, loc, outcome>>

DecodePolygonPoint ==
    /\ op = "polygon" /\ dpc = "ring" /\ outcome = Running
    /\ UNCHANGED <<bldVars, knots, script, tile, geom, reader>>
    /\ count(dec) > 0
    /\ \E r \in next_point(dec) :
          IF r.out # Running THEN Leave(r.d, r.out)
          ELSE \E s \in AddInt64(loc.sum, det(loc.last_point, r.ret)) :
                  IF s.out # Running THEN Leave(r.d, s.out)
                  ELSE /\ dec' = r.d
                       /\ loc' = [loc EXCEPT !.sum = s.v, !.last_point = r.ret]
                       /\ calls' = Append(calls, Call("ring_point", r.ret))
                       /\ UNCHANGED <<stream, dims, op, dpc, outcome>>

DecodePolygonClose ==
    /\ op = "polygon" /\ dpc = "ring" /\ outcome = Running
    /\ UNCHANGED <<bldVars, knots, script, tile, geom, reader>>
    /\ count(dec) = 0
    /\ LET r == next_command(dec, command_close_path(0))
       IN  IF r.out # Running THEN Leave(r.d, r.out)
           ELSE IF ~r.ret
           THEN Leave(r.d, geometry_exception("expected ClosePath command (4.3.4.4)"))
           ELSE \E s \in AddInt64(loc.sum, det(loc.last_point, loc.start_point)) :
                   IF s.out # Running THEN Leave(r.d, s.out)
                   ELSE /\ dec' = r.d
                        /\ loc' = [loc EXCEPT !.sum = s.v]
                        /\ calls' = calls \o <<Call("ring_point", loc.start_point),
                                               Call("ring_end", ring_type(s.v))>>
                        /\ dpc' = "start"
                        /\ UNCHANGED <<stream, dims, op, outcome>>

\* ------------------------------------------------------ decode_linestring
DecodeLinestringMoveTo ==
    /\ op = "linestring" /\ dpc = "start" /\ outcome = Running
    /\ UNCHANGED <<bldVars, knots, script, tile, geom, reader>>
    /\ LET r == next_command(dec, command_move_to(0))
       IN  IF r.out # Running THEN Leave(r.d, r.out)
           ELSE IF ~r.ret THEN Leave(r.d, Returned)
           ELSE IF count(r.d) # 1
           THEN Leave(r.d, geometry_exception("MoveTo command count is not 1 (spec 4.3.4.3)"))
           ELSE /\ dec' = r.d
                /\ dpc' = "first"
                /\ UNCHANGED <<stream, dims, op, loc, calls, outcome>>

DecodeLinestringFirst ==
    /\ op = "linestring" /\ dpc = "first" /\ outcome = Running
    /\ UNCHANGED <<bldVars, knots, script, tile, geom, reader>>
    /\ \E r \in next_point(dec) :
          IF r.out # Running THEN Leave(r.d, r.out)
          ELSE /\ dec' = r.d
               /\ loc' = [loc EXCEPT !.start_point = r.ret]
               /\ dpc' = "lineto"
               /\ UNCHANGED <<stream, dims, op, calls, outcome>>

DecodeLinestringLineTo ==
    /\ op = "linestring" /\ dpc = "lineto" /\ outcome = Running
    /\ UNCHANGED <<bldVars, knots, script, tile, geom, reader>>
    /\ LET r == next_command(dec, command_line_to(0))
       IN  IF r.out # Running THEN Leave(r.d, r.out)
           ELSE IF ~r.ret
           THEN Leave(r.d, geometry_exception("expected LineTo command (spec 4.3.4.3)"))
           ELSE IF count(r.d) = 0
           THEN Leave(r.d, geometry_exception("LineTo command count is zero (spec 4.3.4.3)"))
           ELSE /\ dec' = r.d
                /\ calls' = calls \o <<Call("linestring_begin", ToUInt32(count(r.d) + 1)),
                                       Call("linestring_point", loc.start_point)>>
                /\ dpc' = "line"
                /\ UNCHANGED <<stream, dims, op, loc, outcome>>

DecodeLinestringPoint ==
    /\ op = "linestring" /\ dpc = "line" /\ outcome = Running
    /\ UNCHANGED <<bldVars, knots, script, tile, geom, reader>>
    /\ count(dec) > 0
    /\ \E r \in next_point(dec) :
          IF r.out # Running THEN Leave(r.d, r.out)
          ELSE /\ dec' = r.d
               /\ calls' = Append(calls, Call("linestring_point", r.ret))
               /\ UNCHANGED <<stream, dims, op, loc, dpc, outcome>>

DecodeLinestringEnd ==
    /\ op = "linestring" /\ dpc = "line" /\ outcome = Running
    /\ UNCHANGED <<bldVars, knots, script, tile, geom, reader>>
    /\ count(dec) = 0
    /\ calls' = Append(calls, Call("linestring_end", 0))
    /\ dpc' = "start"
    /\ UNCHANGED <<stream, dims, op, dec, loc, outcome>>

\* ---------------------------------------------------------- decode_spline
\* if (!done()) throw ...; return
SplineReturn(d) ==
    IF ~done(d)
    THEN Leave(d, geometry_exception("additional data after end of geometry (spec 4.3.4.2)"))
    ELSE Leave(d, Returned)

DecodeSplineMoveTo ==
    /\ op = "spline" /\ dpc = "start" /\ outcome = Running
    /\ UNCHANGED <<bldVars, knots, script, tile, geom, reader>>
    /\ UNCHANGED calls
    /\ LET r == next_command(dec, command_move_to(0))
       IN  IF r.out # Running THEN Leave(r.d, r.out)
           ELSE IF ~r.ret THEN SplineReturn(r.d)
           ELSE IF count(r.d) # 1
           THEN Leave(r.d, geometry_exception("MoveTo command count is not 1 (spec 4.3.4.3)"))
           ELSE /\ dec' = r.d
                /\ dpc' = "first"
                /\ UNCHANGED <<stream, dims, op, loc, outcome>>

DecodeSplineFirst ==
    /\ op = "spline" /\ dpc = "first" /\ outcome = Running
    /\ UNCHANGED <<bldVars, knots, script, tile, geom, reader>>
    /\ \E r \in next_point(dec) :
          IF r.out # Running THEN Leave(r.d, r.out)
          ELSE /\ dec' = r.d
               /\ loc' = [loc EXCEPT !.start_point = r.ret]
               /\ dpc' = "lineto"
               /\ UNCHANGED <<stream, dims, op, calls, outcome>>

DecodeSplineLineTo ==
    /\ op = "spline" /\ dpc = "lineto" /\ outcome = Running
    /\ UNCHANGED <<bldVars, knots, script, tile, geom, reader>>
    /\ LET r == next_command(dec, command_line_to(0))
       IN  IF r.out # Running THEN Leave(r.d, r.out)
           ELSE IF ~r.ret
           THEN Leave(r.d, geometry_exception("expected LineTo command (spec 4.3.4.3)"))
           ELSE IF count(r.d) = 0
           THEN Leave(r.d, geometry_exception("LineTo command count is zero (spec 4.3.4.3)"))
           ELSE /\ dec' = r.d
                /\ calls' = calls \o <<Call("controlpoints_begin", ToUInt32(count(r.d) + 1)),
                                       Call("controlpoints_point", loc.start_point)>>
                /\ dpc' = "line"
                /\ UNCHANGED <<stream, dims, op, loc, outcome>>

DecodeSplinePoint ==
    /\ op = "spline" /\ dpc = "line" /\ outcome = Running
    /\ UNCHANGED <<bldVars, knots, script, tile, geom, reader>>
    /\ count(dec) > 0
    /\ \E r \in next_point(dec) :
          IF r.out # Running THEN Leave(r.d, r.out)
          ELSE /\ dec' = r.d
               /\ calls' = Append(calls, Call("controlpoints_point", r.ret))
               /\ UNCHANGED <<stream, dims, op, loc, dpc, outcome>>

\* controlpoints_end, then n = distance(m_knots_it, m_knots_end): the size
\* of the knot data divided by sizeof(double), rounded down
DecodeSplineEnd ==
    /\ op = "spline" /\ dpc = "line" /\ outcome = Running
    /\ UNCHANGED <<bldVars, knots, script, tile, geom, reader>>
    /\ count(dec) = 0
    /\ calls' = calls \o <<Call("controlpoints_end", 0),
                           Call("knots_begin", Len(knots.vals) - dec.m_knots_it + 1)>>
    /\ dpc' = "knots"
    /\ UNCHANGED <<stream, dims, op, dec, loc, outcome>>

\* for (; m_knots_it != m_knots_end; ++m_knots_it) knots_value(*m_knots_it):
\* with left-over bytes the iterator steps over m_knots_end and the next read
\* is outside the knot data
DecodeSplineKnot ==
    /\ op = "spline" /\ dpc = "knots" /\ outcome = Running
    /\ UNCHANGED <<bldVars, knots, script, tile, geom, reader>>
    /\ ~(dec.m_knots_it = Len(knots.vals) + 1 /\ knots.tail = 0)
    /\ IF dec.m_knots_it <= Len(knots.vals)
       THEN /\ calls' = Append(calls, Call("knots_value", knots.vals[dec.m_knots_it]))
            /\ dec' = [dec EXCEPT !.m_knots_it = @ + 1]
            /\ UNCHANGED <<stream, dims, op, loc, dpc, outcome>>
       ELSE Leave(dec, Undefined("read past the end of the knots"))

DecodeSplineDone ==
    /\ op = "spline" /\ dpc = "knots" /\ outcome = Running
    /\ UNCHANGED <<bldVars, knots, script, tile, geom, reader>>
    /\ dec.m_knots_it = Len(knots.vals) + 1 /\ knots.tail = 0
    /\ calls' = Append(calls, Call("knots_end", 0))
    /\ dec' = dec
    /\ outcome' = IF done(dec) THEN Returned
                  ELSE geometry_exception("additional data after end of geometry (spec 4.3.4.2)")
    /\ dpc' = "done"
    /\ UNCHANGED <<stream, dims, op, loc>>

\* =========================================================== the builders
\* Bounds of the builder runs
MaxCalls == 6

\* The points and counts given to the builders.  For each kind the counts
\* are the largest one its assertion rejects, the smallest ones it accepts
\* and the first one whose command no longer fits the count field.
BuilderPoints == {Point(0, 0, 0), Point(1, 0, 0), Point(1, 1, 0)}

PointCounts == {0, 1, 2, max_command_count + 1}

LinestringCounts == {1, 2, 3, max_command_count + 2}

RingCounts == {3, 4, max_command_count + 3}

Kinds == {"point", "linestring", "polygon"}

\* ---- the buffer std::string m_data of the layer, as a sequence of items
Field(tag, v) == [t |-> "field", tag |-> tag, v |-> v, body |-> <<>>]

Elem(v) == [t |-> "elem", tag |-> "", v |-> v, body |-> <<>>]

OpenMark(tag) == [t |-> "open", tag |-> tag, v |-> 0, body |-> <<>>]

Msg(tag, body) == [t |-> "msg", tag |-> tag, v |-> 0, body |-> body]

\* ---- protozero::pbf_writer
NoWriter == [m_data |-> FALSE, m_parent_writer |-> FALSE, m_rollback_pos |-> 0, m_pos |-> 0]

ParentOf(name) == IF name = "m_feature_writer" THEN "message" ELSE "m_feature_writer"

GetW(w, name) == IF name = "message" THEN w.layer.message ELSE w.fb[name]

SetW(w, name, val) ==
    IF name = "message" THEN [w EXCEPT !.layer.message = val]
    ELSE [w EXCEPT !.fb[name] = val]

Abort(w, msg) == [w EXCEPT !.out = AssertFailed(msg)]

valid(w, name) == GetW(w, name).m_data

open_submessage(w, name, tag) ==
    IF w.out # Running THEN w
    ELSE IF GetW(w, name).m_pos # 0 THEN Abort(w, "m_pos == 0")
    ELSE IF ~GetW(w, name).m_data THEN Abort(w, "m_data")
    ELSE LET w1 == [w EXCEPT !.layer.m_data = Append(@, OpenMark(tag))]
         IN  SetW(w1, name, [GetW(w, name) EXCEPT
                                !.m_rollback_pos = Len(w.layer.m_data),
                                !.m_pos = Len(w.layer.m_data) + 1])

rollback_submessage(w, name) ==
    IF w.out # Running THEN w
    ELSE IF GetW(w, name).m_pos = 0 THEN Abort(w, "m_pos != 0")
    ELSE LET w1 == [w EXCEPT !.layer.m_data = SubSeq(@, 1, GetW(w, name).m_rollback_pos)]
         IN  SetW(w1, name, [GetW(w, name) EXCEPT !.m_pos = 0])

commit_submessage(w, name) ==
    IF w.out # Running THEN w
    ELSE IF GetW(w, name).m_pos = 0 THEN Abort(w, "m_pos != 0")
    ELSE LET pw == GetW(w, name)
             data == w.layer.m_data
             w1 == [w EXCEPT !.layer.m_data =
                        SubSeq(data, 1, pw.m_rollback_pos)
                            \o <<Msg(data[pw.m_pos].tag, SubSeq(data, pw.m_pos + 1, Len(data)))>>]
         IN  SetW(w1, name, [pw EXCEPT !.m_pos = 0])

close_submessage(w, name) ==
    IF w.out # Running THEN w
    ELSE IF ~GetW(w, name).m_data THEN Abort(w, "m_data")
    ELSE IF GetW(w, name).m_pos = 0 THEN w
    ELSE IF Len(w.layer.m_data) = GetW(w, name).m_pos THEN rollback_submessage(w, name)
    ELSE commit_submessage(w, name)

\* pbf_writer(parent, tag), moved into the member `name`
sub_writer(w, name, tag) ==
    IF w.out # Running THEN w
    ELSE open_submessage(
            SetW(w, name, [NoWriter EXCEPT !.m_data = GetW(w, ParentOf(name)).m_data,
                                           !.m_parent_writer = TRUE]),
            ParentOf(name), tag)

writer_commit(w, name) ==
    IF w.out # Running THEN w
    ELSE IF ~GetW(w, name).m_parent_writer
    THEN Abort(w, "you can't call commit() on a pbf_writer without a parent")
    ELSE IF GetW(w, name).m_pos # 0
    THEN Abort(w, "you can't call commit() on a pbf_writer that has an open nested submessage")
    ELSE LET w1 == close_submessage(w, ParentOf(name))
         IN  IF w1.out # Running THEN w1
             ELSE SetW(w1, name, [GetW(w1, name) EXCEPT !.m_parent_writer = FALSE,
                                                        !.m_data = FALSE])

writer_rollback(w, name) ==
    IF w.out # Running THEN w
    ELSE IF ~GetW(w, name).m_parent_writer
    THEN Abort(w, "you can't call rollback() on a pbf_writer without a parent")
    ELSE IF GetW(w, name).m_pos # 0
    THEN Abort(w, "you can't call rollback() on a pbf_writer that has an open nested submessage")
    ELSE LET w1 == rollback_submessage(w, ParentOf(name))
         IN  IF w1.out # Running THEN w1
             ELSE SetW(w1, name, [GetW(w1, name) EXCEPT !.m_data = FALSE])

writer_destroy(w, name) ==
    IF w.out # Running THEN w
    ELSE IF GetW(w, name).m_parent_writer THEN close_submessage(w, ParentOf(name))
    ELSE w

\* add_uint64 / add_enum / packed_field::add_element on the writer `name`
add_item(w, name, item) ==
    IF w.out # Running THEN w
    ELSE IF GetW(w, name).m_pos # 0 THEN Abort(w, "m_pos == 0")
    ELSE IF ~GetW(w, name).m_data THEN Abort(w, "m_data")
    ELSE [w EXCEPT !.layer.m_data = Append(@, item)]

add_element(w, name, v) == add_item(w, name, Elem(v))

\* vtzero_assert(cond)
vtzero_assert(w, cond, msg) ==
    IF w.out # Running THEN w ELSE IF cond THEN w ELSE Abort(w, msg)

\* ---- layer_builder_impl
layer_builder_impl ==
    [m_data |-> <<>>,
     message |-> [m_data |-> TRUE, m_parent_writer |-> FALSE, m_rollback_pos |-> 0, m_pos |-> 0],
     m_num_features |-> 0,
     keys |-> <<>>,
     values |-> <<>>]

increment_feature_count(w) ==
    IF w.out # Running THEN w ELSE [w EXCEPT !.layer.m_num_features = @ + 1]

\* index of the first entry of table equal to text, 0 if there is none
IndexIn(table, text) ==
    IF \E i \in 1..Len(table) : table[i] = text
    THEN CHOOSE i \in 1..Len(table) :
             table[i] = text /\ \A j \in 1..(i - 1) : table[j] # text
    ELSE 0

\* add_key / add_value: the index of an equal entry, or a new entry
add_key(w, text) ==
    IF w.out # Running \/ IndexIn(w.layer.keys, text) # 0 THEN w
    ELSE [w EXCEPT !.layer.keys = Append(@, text)]

add_value(w, text) ==
    IF w.out # Running \/ IndexIn(w.layer.values, text) # 0 THEN w
    ELSE [w EXCEPT !.layer.values = Append(@, text)]

\* ---- feature_builder_base, detail::feature_builder
NoBuilder ==
    [kind |-> "none",
     m_feature_writer |-> NoWriter, m_pbf_tags |-> NoWriter, m_pbf_geometry |-> NoWriter,
     m_num_points |-> 0, m_cursor |-> Origin,
     m_start |-> FALSE, m_first_point |-> Origin]

\* feature_builder_base(layer, id)
feature_builder_base(w, id) ==
    add_item(sub_writer(w, "m_feature_writer", "features"),
             "m_feature_writer", Field("id", id))

add_property_impl(w, key, value) ==
    LET w1 == add_key(w, key)
        w2 == add_element(w1, "m_pbf_tags", IndexIn(w1.layer.keys, key) - 1)
        w3 == add_value(w2, value)
    IN  add_element(w3, "m_pbf_tags", IndexIn(w3.layer.values, value) - 1)

\* a do_commit() that counts the feature on every call
do_commit_twice(w) ==
    LET w1 == IF w.out = Running /\ valid(w, "m_pbf_tags")
              THEN writer_commit(w, "m_pbf_tags") ELSE w
        w2 == IF w1.out = Running /\ valid(w1, "m_feature_writer")
              THEN writer_commit(w1, "m_feature_writer") ELSE w1
    IN  increment_feature_count(w2)

do_commit(w) ==
    LET w1 == IF w.out = Running /\ valid(w, "m_pbf_tags")
              THEN writer_commit(w, "m_pbf_tags") ELSE w
    IN  IF w1.out = Running /\ valid(w1, "m_feature_writer")
        THEN increment_feature_count(writer_commit(w1, "m_feature_writer"))
        ELSE w1

\* a do_rollback() that leaves an invalid feature writer alone
do_rollback_if_valid(w) ==
    LET w1 == IF w.out = Running /\ valid(w, "m_pbf_tags")
              THEN writer_commit(w, "m_pbf_tags") ELSE w
    IN  IF w1.out = Running /\ valid(w1, "m_feature_writer")
        THEN writer_rollback(w1, "m_feature_writer")
        ELSE w1

do_rollback(w) ==
    LET w1 == IF w.out = Running /\ valid(w, "m_pbf_tags")
              THEN writer_commit(w, "m_pbf_tags") ELSE w
    IN  writer_rollback(w1, "m_feature_writer")

\* point_/line_string_/polygon_feature_builder(layer, id)
GeomTypeOf(kind) ==
    IF kind = "point" THEN 1 ELSE IF kind = "linestring" THEN 2 ELSE 3

feature_builder(w, kind, id) ==
    LET w0 == [w EXCEPT !.fb = [NoBuilder EXCEPT !.kind = kind]]
        w1 == feature_builder_base(w0, id)
        w2 == add_item(w1, "m_feature_writer", Field("type", GeomTypeOf(kind)))
    IN  sub_writer(w2, "m_pbf_geometry", "geometry")

\* an add_property() that neither closes the geometry nor opens the tags
add_property_unsealed(w, key, value) == add_value(add_key(w, key), value)

add_property(w, key, value) ==
    LET w1 == IF w.out = Running /\ valid(w, "m_pbf_geometry")
              THEN writer_commit(
                      vtzero_assert(w, w.fb.m_num_points = 0, "Not enough calls to set_point()"),
                      "m_pbf_geometry")
              ELSE w
        w2 == IF w1.out = Running /\ ~valid(w1, "m_pbf_tags")
              THEN sub_writer(w1, "m_pbf_tags", "tags") ELSE w1
    IN  add_property_impl(w2, key, value)

\* a commit() that counts a feature on every call
commit_counting(w) ==
    LET w1 == IF w.out = Running /\ valid(w, "m_pbf_geometry")
              THEN writer_commit(w, "m_pbf_geometry") ELSE w
    IN  increment_feature_count(do_commit(w1))

commit(w) ==
    LET w1 == IF w.out = Running /\ valid(w, "m_pbf_geometry")
              THEN writer_commit(w, "m_pbf_geometry") ELSE w
    IN  do_commit(w1)

rollback(w) ==
    LET w1 == IF w.out = Running /\ valid(w, "m_pbf_geometry")
              THEN writer_commit(w, "m_pbf_geometry") ELSE w
    IN  do_rollback(w1)

\* the asserts every geometry call starts with
geometry_open(w) ==
    vtzero_assert(vtzero_assert(w, valid(w, "m_pbf_geometry"), "m_pbf_geometry.valid()"),
                  ~valid(w, "m_pbf_tags"), "!m_pbf_tags.valid()")

\* p.x - m_cursor.x on int32_t: a difference out of range is undefined, the
\* build wraps it or, with script.ftrapv, traps
Delta(a, b) == ToInt32(a - b)

DeltaOverflows(a, b) == a - b < Int32Min \/ a - b > Int32Max

add_delta(w, p) ==
    IF w.out = Running /\ script.ftrapv
       /\ (DeltaOverflows(p.x, w.fb.m_cursor.x) \/ DeltaOverflows(p.y, w.fb.m_cursor.y))
    THEN [w EXCEPT !.out = Undefined("signed integer overflow")]
    ELSE
    add_element(add_element(w, "m_pbf_geometry", encode_zigzag32(Delta(p.x, w.fb.m_cursor.x))),
                "m_pbf_geometry", encode_zigzag32(Delta(p.y, w.fb.m_cursor.y)))

\* ---- point_feature_builder
add_point(w, p) ==
    LET w1 == add_element(geometry_open(w), "m_pbf_geometry", command_move_to(1))
        w2 == add_element(w1, "m_pbf_geometry", encode_zigzag32(p.x))
        w3 == add_element(w2, "m_pbf_geometry", encode_zigzag32(p.y))
    IN  writer_commit(w3, "m_pbf_geometry")

add_points(w, n) ==
    LET w1 == vtzero_assert(geometry_open(w), n > 0, "count > 0")
    IN  IF w1.out # Running THEN w1
        ELSE add_element([w1 EXCEPT !.fb.m_num_points = n],
                         "m_pbf_geometry", command_move_to(n))

point_set_point(w, p) ==
    LET w1 == vtzero_assert(geometry_open(w), w.fb.m_num_points > 0, "Too many points")
    IN  IF w1.out # Running THEN w1
        ELSE LET w2 == add_delta([w1 EXCEPT !.fb.m_num_points = @ - 1], p)
             IN  IF w2.out # Running THEN w2 ELSE [w2 EXCEPT !.fb.m_cursor = p]

\* ---- line_string_feature_builder
\* an add_linestring() without the check of the points still expected
add_linestring_unchecked(w, n) ==
    LET w1 == vtzero_assert(geometry_open(w), n > 1, "count > 1")
    IN  IF w1.out # Running THEN w1
        ELSE [w1 EXCEPT !.fb.m_num_points = n, !.fb.m_start = TRUE]

add_linestring(w, n) ==
    LET w1 == vtzero_assert(geometry_open(w), n > 1, "count > 1")
        w2 == vtzero_assert(w1, w.fb.m_num_points = 0, "LineString has fewer points than expected")
    IN  IF w2.out # Running THEN w2
        ELSE [w2 EXCEPT !.fb.m_num_points = n, !.fb.m_start = TRUE]

line_string_set_point(w, p) ==
    LET w1 == vtzero_assert(geometry_open(w), w.fb.m_num_points > 0, "Too many calls to set_point()")
    IN  IF w1.out # Running THEN w1
        ELSE LET w2 == [w1 EXCEPT !.fb.m_num_points = @ - 1]
                 w3 == IF w2.fb.m_start
                       THEN LET a == add_delta(add_element(w2, "m_pbf_geometry", command_move_to(1)), p)
                                b == add_element(a, "m_pbf_geometry", command_line_to(w2.fb.m_num_points))
                            IN  IF b.out # Running THEN b ELSE [b EXCEPT !.fb.m_start = FALSE]
                       ELSE add_delta(vtzero_assert(w2, p # w2.fb.m_cursor, "p != m_cursor"), p)
             IN  IF w3.out # Running THEN w3 ELSE [w3 EXCEPT !.fb.m_cursor = p]

\* ---- polygon_feature_builder
add_ring(w, n) ==
    LET w1 == vtzero_assert(geometry_open(w), n > 3, "count > 3")
        w2 == vtzero_assert(w1, w.fb.m_num_points = 0, "ring has fewer points than expected")
    IN  IF w2.out # Running THEN w2
        ELSE [w2 EXCEPT !.fb.m_num_points = n, !.fb.m_start = TRUE]

polygon_set_point(w, p) ==
    LET w1 == vtzero_assert(geometry_open(w), w.fb.m_num_points > 0, "Too many calls to add_point()")
    IN  IF w1.out # Running THEN w1
        ELSE LET w2 == [w1 EXCEPT !.fb.m_num_points = @ - 1]
             IN  IF w2.fb.m_start
                 THEN LET a == add_delta(add_element([w2 EXCEPT !.fb.m_first_point = p],
                                                     "m_pbf_geometry", command_move_to(1)), p)
                          b == add_element(a, "m_pbf_geometry",
                                           command_line_to(ToUInt32(w2.fb.m_num_points - 1)))
                      IN  IF b.out # Running THEN b
                          ELSE [b EXCEPT !.fb.m_start = FALSE, !.fb.m_cursor = p]
                 ELSE IF w2.fb.m_num_points = 0
                 THEN add_element(vtzero_assert(w2, w2.fb.m_first_point = p, "m_first_point == p"),
                                  "m_pbf_geometry", command_close_path(1))
                 ELSE LET c == add_delta(vtzero_assert(w2, w2.fb.m_cursor # p, "m_cursor != p"), p)
                      IN  IF c.out # Running THEN c ELSE [c EXCEPT !.fb.m_cursor = p]

close_ring(w) ==
    LET w1 == vtzero_assert(geometry_open(w), w.fb.m_num_points = 1, "m_num_points == 1")
        w2 == add_element(w1, "m_pbf_geometry", command_close_path(1))
    IN  IF w2.out # Running THEN w2 ELSE [w2 EXCEPT !.fb.m_num_points = @ - 1]

set_point(w, p) ==
    IF w.fb.kind = "point" THEN point_set_point(w, p)
    ELSE IF w.fb.kind = "linestring" THEN line_string_set_point(w, p)
    ELSE polygon_set_point(w, p)

\* ~point_feature_builder etc., then ~feature_builder, then the members
destroy(w) ==
    LET w1 == vtzero_assert(w, w.fb.m_num_points = 0, "has fewer points than expected")
        w2 == commit(w1)
        w3 == writer_destroy(w2, "m_pbf_geometry")
        w4 == writer_destroy(w3, "m_pbf_tags")
    IN  writer_destroy(w4, "m_feature_writer")

\* ---- the calls a program makes on one builder after the other; MaxCalls
\* bounds the constructor and member calls of the whole program
World == [layer |-> layer, fb |-> fb, out |-> bout]

\* the decoder was made by the program itself, and no value is read
NoGeom == [type |-> 0, f |-> ""]

NoReader == [mode |-> "none"]

\* No tile is read and no tile_builder used
NoTile ==
    [mode |-> "none", fields |-> <<>>, input |-> <<>>, pos |-> 1, m_layers |-> <<>>, out |-> <<>>,
     f |-> "", arg |-> <<>>, ret |-> 0, pre |-> <<>>, ncalls |-> 0, rets |-> {}]

\* No script: the program makes any MaxCalls calls
NoScript == [kind |-> "none", calls |-> <<>>, ftrapv |-> FALSE]

\* A script takes the constructor, its calls and the commit
CallBudget == IF script = NoScript THEN MaxCalls ELSE Len(script.calls) + 2

NoHist ==
    [n |-> 0, pre |-> [m_data |-> <<>>, m_num_features |-> 0],
     f |-> "", arg |-> 0, p |-> Origin, ncalls |-> 0,
     first |-> Origin,
     geom |-> FALSE, props |-> 0, ann |-> 0, made |-> 0,
     commits |-> 0, term |-> "open"]

\* the record of a call f(arg) that left the program in w1
Called(f, arg, w1) ==
    [hist EXCEPT !.f = f, !.arg = arg, !.ncalls = @ + 1]

Live == scope = "live" /\ bout = Running /\ hist.ncalls < CallBudget

Leaves(w1, h) ==
    /\ layer' = w1.layer
    /\ fb' = w1.fb
    /\ bout' = w1.out
    /\ hist' = h
    /\ UNCHANGED <<decVars, script, tile>>

NewBuilder ==
    \E kind \in Kinds :
        /\ scope \in {"none", "gone"}
        /\ bout = Running
        /\ hist.ncalls < CallBudget
        /\ scope' = "live"
        /\ Leaves(feature_builder(World, kind, hist.n + 1),
                  [NoHist EXCEPT !.n = hist.n + 1,
                                 !.f = "feature_builder",
                                 !.ncalls = hist.ncalls + 1,
                                 !.pre = [m_data |-> layer.m_data,
                                          m_num_features |-> layer.m_num_features]])

AddPoint ==
    \E p \in BuilderPoints :
        /\ Live /\ fb.kind = "point"
        /\ UNCHANGED scope
        /\ LET w1 == add_point(World, p)
               h == Called("add_point", 0, w1)
           IN  Leaves(w1, IF w1.out = Running THEN [h EXCEPT !.geom = TRUE] ELSE h)

AddPoints ==
    \E n \in PointCounts :
        /\ Live /\ fb.kind = "point"
        /\ UNCHANGED scope
        /\ LET w1 == add_points(World, n)
               h == Called("add_points", n, w1)
           IN  Leaves(w1, IF w1.out = Running
                          THEN [h EXCEPT !.geom = TRUE, !.ann = n, !.made = 0] ELSE h)

SetPoint ==
    \E p \in BuilderPoints :
        /\ Live
        /\ UNCHANGED scope
        /\ LET w1 == set_point(World, p)
               h == [Called("set_point", 0, w1) EXCEPT !.p = p]
           IN  Leaves(w1, IF w1.out = Running
                          THEN [h EXCEPT !.made = @ + 1,
                                         !.first = IF hist.made = 0 THEN p ELSE @]
                          ELSE h)

AddLinestring ==
    \E n \in LinestringCounts :
        /\ Live /\ fb.kind = "linestring"
        /\ UNCHANGED scope
        /\ LET w1 == add_linestring(World, n)
               h == Called("add_linestring", n, w1)
           IN  Leaves(w1, IF w1.out = Running
                          THEN [h EXCEPT !.geom = TRUE, !.ann = n, !.made = 0] ELSE h)

AddRing ==
    \E n \in RingCounts :
        /\ Live /\ fb.kind = "polygon"
        /\ UNCHANGED scope
        /\ LET w1 == add_ring(World, n)
               h == Called("add_ring", n, w1)
           IN  Leaves(w1, IF w1.out = Running
                          THEN [h EXCEPT !.geom = TRUE, !.ann = n, !.made = 0] ELSE h)

\* close_ring() stands for the last point of the ring
CloseRing ==
    /\ Live /\ fb.kind = "polygon"
    /\ UNCHANGED scope
    /\ LET w1 == close_ring(World)
           h == Called("close_ring", 0, w1)
       IN  Leaves(w1, IF w1.out = Running THEN [h EXCEPT !.made = @ + 1] ELSE h)

AddProperty ==
    /\ Live
    /\ UNCHANGED scope
    /\ LET w1 == add_property(World, "k", "v")
           h == Called("add_property", 0, w1)
       IN  Leaves(w1, IF w1.out = Running THEN [h EXCEPT !.props = 1] ELSE h)

Commit ==
    /\ Live
    /\ UNCHANGED scope
    /\ LET w1 == commit(World)
           h == Called("commit", 0, w1)
       IN  Leaves(w1, IF w1.out = Running
                      THEN [h EXCEPT !.commits = @ + 1,
                                     !.term = IF @ = "open" THEN "committed" ELSE @]
                      ELSE h)

Rollback ==
    /\ Live
    /\ UNCHANGED scope
    /\ LET w1 == rollback(World)
           h == Called("rollback", 0, w1)
       IN  Leaves(w1, IF w1.out = Running
                      THEN [h EXCEPT !.term = IF @ = "open" THEN "rolled" ELSE @]
                      ELSE h)

\* the builder goes out of scope
ScopeExit ==
    /\ scope = "live" /\ bout = Running
    /\ scope' = "gone"
    /\ LET w1 == destroy(World)
           h == [hist EXCEPT !.f = "scope_exit", !.arg = 0]
       IN  Leaves(w1, IF w1.out = Running
                      THEN [h EXCEPT !.term = IF @ = "open" THEN "committed" ELSE @]
                      ELSE h)

Init ==
    /\ layer = layer_builder_impl
    /\ fb = NoBuilder
    /\ scope = "none"
    /\ bout = Running
    /\ hist = NoHist
    /\ script = NoScript
    /\ tile = NoTile
    /\ geom = NoGeom
    /\ reader = NoReader
    /\ stream = <<>>
    /\ knots = NoKnots
    /\ dims = 2
    /\ op = "point"
    /\ dec = geometry_decoder(0)
    /\ loc = NoLocals
    /\ dpc = "done"
    /\ calls = <<>>
    /\ outcome = Returned

Next ==
    \/ NewBuilder
    \/ AddPoint
    \/ AddPoints
    \/ SetPoint
    \/ AddLinestring
    \/ AddRing
    \/ CloseRing
    \/ AddProperty
    \/ Commit
    \/ Rollback
    \/ ScopeExit

Spec == Init /\ [][Next]_vars

\* ----------------------------------------------- claims on the builders
\* a step that is the call f on the builder in scope
CallStep(f) ==
    /\ hist'.f = f
    /\ \/ hist'.ncalls = hist.ncalls + 1
       \/ scope = "live" /\ scope' = "gone"

GeometryCalls == {"add_point", "add_points", "add_linestring", "add_ring", "set_point", "close_ring"}

BuilderCalls == GeometryCalls \cup {"add_property", "commit", "rollback", "scope_exit"}

AnyCallStep == \E f \in BuilderCalls : CallStep(f)

SameLayer == layer'.m_data = layer.m_data /\ layer'.m_num_features = layer.m_num_features

LayerAsBefore ==
    layer.m_data = hist.pre.m_data /\ layer.m_num_features = hist.pre.m_num_features

\* the layer holds what it held before the builder, and one feature record more
OneRecordMore ==
    /\ layer.m_num_features = hist.pre.m_num_features + 1
    /\ Len(layer.m_data) = Len(hist.pre.m_data) + 1
    /\ SubSeq(layer.m_data, 1, Len(hist.pre.m_data)) = hist.pre.m_data
    /\ layer.m_data[Len(layer.m_data)].t = "msg"
    /\ layer.m_data[Len(layer.m_data)].tag = "features"
    /\ layer.m_data[Len(layer.m_data)].body[1] = Field("id", hist.n)

\* C2: commit() or scope exit on a builder to which no geometry was added
\* fails an assertion and does not increment the feature count.
C2_CommitWithoutGeometryFails ==
    [][(\E f \in {"commit", "scope_exit"} : CallStep(f)) /\ ~hist.geom /\ hist.term = "open"
        => bout'.kind = "assertion"
           /\ layer'.m_num_features = layer.m_num_features]_vars

\* C3: a builder with a geometry contributes exactly one feature record and
\* one count, however often commit() is called and also when it is only
\* committed at scope exit; a commit() after the first changes nothing.
C3_OneRecordPerBuilder ==
    /\ []((hist.geom /\ hist.term = "committed" /\ bout = Running) => OneRecordMore)
    /\ [][CallStep("commit") /\ hist.term = "committed" => bout' = Running /\ SameLayer]_vars

C3_Witness ==
    /\ hist.geom /\ hist.commits >= 2 /\ scope = "gone" /\ bout = Running
    /\ OneRecordMore

\* C4: after rollback() on an uncommitted builder the layer is what it was
\* before the builder was created, and the builder's scope exit adds
\* nothing and raises no error.
C4_RollbackRestoresLayer ==
    /\ []((hist.term = "rolled" /\ bout = Running) => LayerAsBefore)
    /\ [][CallStep("scope_exit") /\ hist.term = "rolled" => bout' = Running /\ SameLayer]_vars

\* the part of C4 for builders whose announced points were all set
C4_RollbackOfCompleteGeometry ==
    /\ []((hist.term = "rolled" /\ bout = Running) => LayerAsBefore)
    /\ [][CallStep("scope_exit") /\ hist.term = "rolled" /\ hist.made >= hist.ann
            => bout' = Running /\ SameLayer]_vars

\* the feature field tag is written inside a feature whose geometry is open
RECURSIVE OpenInside(_, _, _)
OpenInside(data, i, tag) ==
    IF i = 0 THEN FALSE
    ELSE IF data[i].t = "open" /\ data[i].tag = tag THEN TRUE
    ELSE IF data[i].t = "open" /\ data[i].tag = "features" THEN FALSE
    ELSE OpenInside(data, i - 1, tag)

TagsAfterGeometry(body) ==
    \A i, j \in 1..Len(body) :
        body[i].tag = "tags" /\ body[j].tag = "geometry" => j < i /\ body[j].t = "msg"

\* C5: once add_property was called every geometry call fails an assertion
\* and appends nothing, and the geometry field of a feature is closed
\* before its first property index is written.
C5_GeometryBeforeProperties ==
    /\ [][(\E f \in GeometryCalls : CallStep(f)) /\ hist.props > 0
            => bout'.kind = "assertion" /\ SameLayer]_vars
    /\ [](\A i \in 1..Len(layer.m_data) :
            /\ layer.m_data[i].tag = "tags" => ~OpenInside(layer.m_data, i - 1, "geometry")
            /\ layer.m_data[i].tag = "features" => TagsAfterGeometry(layer.m_data[i].body))

C5_Witness ==
    /\ hist.props > 0 /\ hist.f \in GeometryCalls /\ bout.kind = "assertion"
    /\ \E i \in 1..Len(layer.m_data) : layer.m_data[i].tag = "tags"

\* GEOM-ACTIVE 1, geometry closed 2, TAGS-ACTIVE 3, COMMITTED or ROLLED-BACK 4
Rank(f) ==
    IF ~f.m_feature_writer.m_data THEN 4
    ELSE IF f.m_pbf_tags.m_data THEN 3
    ELSE IF f.m_pbf_geometry.m_data THEN 1
    ELSE 2

\* C6: the state of a builder only moves forward, and after commit or
\* rollback no call on the builder changes the layer.
C6_ForwardAndTerminal ==
    /\ [][AnyCallStep /\ bout' = Running => Rank(fb') >= Rank(fb)]_vars
    /\ []((hist.term # "open" /\ bout = Running) => Rank(fb) = 4)
    /\ [][AnyCallStep /\ hist.term # "open" => SameLayer]_vars

C6_Witness ==
    /\ hist.term = "committed" /\ hist.f = "add_property" /\ bout.kind = "assertion"
    /\ OneRecordMore

CountAsserts ==
    {"Too many points", "Too many calls to set_point()", "Too many calls to add_point()"}

\* C7: after add_points(n), add_linestring(n) or add_ring(n) the (n+1)-th
\* set_point fails an assertion, none of the first n fails for their number
\* (in a point builder each of them is accepted when it follows add_points
\* or a set_point), and add_linestring, add_ring, add_property and scope
\* exit fail an assertion while fewer than n points were set.
C7_ExactlyAnnouncedPoints ==
    /\ [][CallStep("set_point") /\ hist.ann > 0 /\ hist.made >= hist.ann
            => bout'.kind = "assertion"]_vars
    /\ [][CallStep("set_point") /\ hist.made < hist.ann => bout'.what \notin CountAsserts]_vars
    /\ [][CallStep("set_point") /\ hist.made < hist.ann /\ fb.kind = "point"
            /\ hist.f \in {"add_points", "set_point"}
            => bout' = Running]_vars
    /\ [][(\E f \in {"add_linestring", "add_ring", "add_property", "scope_exit"} : CallStep(f))
            /\ hist.made < hist.ann
            => bout'.kind = "assertion"]_vars

\* the part of C7 for calls made while the geometry field is still open
C7_WhileGeometryOpen ==
    /\ [][CallStep("set_point") /\ hist.ann > 0 /\ hist.made >= hist.ann
            => bout'.kind = "assertion"]_vars
    /\ [][CallStep("set_point") /\ hist.made < hist.ann => bout'.what \notin CountAsserts]_vars
    /\ [][(\E f \in {"add_linestring", "add_ring", "scope_exit"} : CallStep(f))
            /\ hist.made < hist.ann
            => bout'.kind = "assertion"]_vars
    /\ [][CallStep("add_property") /\ hist.made < hist.ann /\ fb.m_pbf_geometry.m_data
            => bout'.kind = "assertion"]_vars

\* C8: in a ring opened with add_ring(n) the n-th point must equal the
\* first; it is written as ClosePath(1) without a delta and leaves the cursor
\* at the point before it; the LineTo after the first point has count n - 2.
C8_RingClosure ==
    /\ [][CallStep("set_point") /\ fb.kind = "polygon" /\ hist.term = "open"
            /\ hist.ann > 0 /\ hist.made = hist.ann - 1
            => IF hist'.p = hist.first
               THEN /\ bout' = Running
                    /\ layer'.m_data = Append(layer.m_data, Elem(command_close_path(1)))
                    /\ fb'.m_cursor = hist.p
               ELSE bout'.kind = "assertion"]_vars
    /\ [][CallStep("set_point") /\ fb.kind = "polygon" /\ hist.term = "open"
            /\ hist.ann > 0 /\ hist.made = 0 /\ bout' = Running
            => /\ get_command_id(layer'.m_data[Len(layer'.m_data)].v) = 2
               /\ get_command_count(layer'.m_data[Len(layer'.m_data)].v) = hist.ann - 2]_vars

\* the part of C8 for rings whose LineTo count fits the command integer
C8_RingClosureSmall ==
    /\ [][CallStep("set_point") /\ fb.kind = "polygon" /\ hist.term = "open"
            /\ hist.ann > 0 /\ hist.made = hist.ann - 1
            => IF hist'.p = hist.first
               THEN /\ bout' = Running
                    /\ layer'.m_data = Append(layer.m_data, Elem(command_close_path(1)))
                    /\ fb'.m_cursor = hist.p
               ELSE bout'.kind = "assertion"]_vars
    /\ [][CallStep("set_point") /\ fb.kind = "polygon" /\ hist.term = "open"
            /\ hist.ann > 0 /\ hist.ann - 2 <= max_command_count
            /\ hist.made = 0 /\ bout' = Running
            => /\ get_command_id(layer'.m_data[Len(layer'.m_data)].v) = 2
               /\ get_command_count(layer'.m_data[Len(layer'.m_data)].v) = hist.ann - 2]_vars

C8_WitnessSmall ==
    /\ fb.kind = "polygon" /\ hist.ann = 4 /\ hist.made = 4 /\ bout = Running
    /\ layer.m_data[Len(layer.m_data)] = Elem(command_close_path(1))

\* ------------------------------------------------- decoder specification
\* decode_*_geometry: a fresh decoder over the geometry's data, with
\* max = data().size() / 2 (every integer of the model is a one-byte varint)
DecInit ==
    /\ stream \in GeomStreams
    /\ dims \in {2, 3}
    /\ op \in {"point", "polygon", "linestring", "spline"}
    /\ knots \in (IF op = "spline" THEN KnotInputs ELSE {NoKnots})
    /\ dec = geometry_decoder(Len(stream) \div 2)
    /\ loc = NoLocals
    /\ calls = <<>>
    /\ IF Len(stream) \div 2 <= max_command_count
       THEN dpc = "start" /\ outcome = Running
       ELSE dpc = "done" /\ outcome = AssertFailed("max <= detail::max_command_count()")
    /\ layer = layer_builder_impl
    /\ fb = NoBuilder
    /\ scope = "none"
    /\ bout = Running
    /\ hist = NoHist
    /\ script = NoScript
    /\ tile = NoTile
    /\ geom = NoGeom
    /\ reader = NoReader

DecNext ==
    \/ DecodePointBegin
    \/ DecodePointPoint
    \/ DecodePointEnd
    \/ DecodePolygonMoveTo
    \/ DecodePolygonFirst
    \/ DecodePolygonLineTo
    \/ DecodePolygonPoint
    \/ DecodePolygonClose
    \/ DecodeLinestringMoveTo
    \/ DecodeLinestringFirst
    \/ DecodeLinestringLineTo
    \/ DecodeLinestringPoint
    \/ DecodeLinestringEnd
    \/ DecodeSplineMoveTo
    \/ DecodeSplineFirst
    \/ DecodeSplineLineTo
    \/ DecodeSplinePoint
    \/ DecodeSplineEnd
    \/ DecodeSplineKnot
    \/ DecodeSplineDone

DecSpec == DecInit /\ [][DecNext]_vars

\* ------------------------------------------------ claims on the decoder
\* The handler calls of the ring that ends with the ring_end call at i:
\* the ring_point calls right before it.
RECURSIVE RingStart(_, _)
RingStart(cs, i) ==
    IF i > 1 /\ cs[i - 1].f = "ring_point" THEN RingStart(cs, i - 1) ELSE i

RingPoints(cs, i) == [k \in 1..(i - RingStart(cs, i)) |-> cs[RingStart(cs, i) + k - 1].a]

\* sum of x_i * y_{i+1} - x_{i+1} * y_i over consecutive points, in unbounded integers
RECURSIVE Shoelace(_)
Shoelace(ps) ==
    IF Len(ps) < 2 THEN 0
    ELSE (ps[1].x * ps[2].y - ps[2].x * ps[1].y) + Shoelace(Tail(ps))

RingEnds == {i \in 1..Len(calls) : calls[i].f = "ring_end"}

\* C1: every ring type passed to ring_end is the sign of the exact shoelace
\* sum over the ring's points: outer if positive, inner if negative,
\* invalid if zero.
C1_RingTypeIsExactSign ==
    \A i \in RingEnds :
        LET exact == Shoelace(RingPoints(calls, i))
        IN  calls[i].a = (IF exact > 0 THEN "outer"
                          ELSE IF exact < 0 THEN "inner" ELSE "invalid")

\* C9: every ring for which ring_begin and ring_end were both called has at
\* least 4 points, the closing point included (a LineTo count below 2 is a
\* geometry error).
C9_RingHasFourPoints ==
    \A i \in RingEnds : Len(RingPoints(calls, i)) >= 4

\* The points a point stream holds, by the cursor rule, taken d integers at a time.
RECURSIVE StreamPoints(_, _, _)
StreamPoints(s, d, cur) ==
    IF Len(s) < d THEN <<>>
    ELSE LET p == Point(ToInt32(cur.x + decode_zigzag32(s[1])),
                        ToInt32(cur.y + decode_zigzag32(s[2])),
                        IF d = 3 THEN ToInt32(cur.z + decode_zigzag32(s[3])) ELSE 0)
         IN  <<p>> \o StreamPoints(SubSeq(s, d + 1, Len(s)), d, p)

\* one MoveTo command with count c >= 1 followed by exactly c points
IsPointStream(s, d) ==
    /\ Len(s) >= 1
    /\ get_command_id(s[1]) = 1
    /\ get_command_count(s[1]) >= 1
    /\ Len(s) = 1 + d * get_command_count(s[1])

PointCalls(s, d) ==
    <<Call("points_begin", get_command_count(s[1]))>>
        \o [k \in 1..get_command_count(s[1]) |->
               Call("points_point", StreamPoints(Tail(s), d, Origin)[k])]
        \o <<Call("points_end", 0)>>

PointDecoded == op = "point" /\ dpc = "done"

\* C10: decode_point succeeds exactly on the streams made of one MoveTo with
\* count c >= 1 and exactly c points, with the calls points_begin(c), c times
\* points_point in stream order, points_end; every other stream ends in a
\* geometry error and points_end is not called.
C10_DecodePoint ==
    PointDecoded =>
        IF IsPointStream(stream, dims)
        THEN outcome = Returned /\ calls = PointCalls(stream, dims)
        ELSE /\ outcome.kind = "geometry_exception"
             /\ \A i \in 1..Len(calls) : calls[i].f # "points_end"

\* C10 for the 2-D decoder alone
C10_DecodePoint2D == dims = 2 => C10_DecodePoint

C10_Witness2D ==
    /\ PointDecoded /\ dims = 2 /\ outcome = Returned
    /\ get_command_count(stream[1]) = 1

\* ---------------------------------------------------------------- C11
\* The first group of a linestring stream: MoveTo(1), one point, LineTo(c)
\* with c >= 1, c points
GroupCount(s) == get_command_count(s[2 + dims])

GroupLen(s) == 2 + dims + dims * GroupCount(s)

HasGroup(s) ==
    /\ Len(s) >= 2 + dims
    /\ s[1] = command_move_to(1)
    /\ get_command_id(s[2 + dims]) = 2
    /\ GroupCount(s) >= 1
    /\ Len(s) >= GroupLen(s)

RECURSIVE IsLinestringStream(_)
IsLinestringStream(s) ==
    \/ s = <<>>
    \/ /\ HasGroup(s)
       /\ IsLinestringStream(SubSeq(s, GroupLen(s) + 1, Len(s)))

\* The coordinate integers of the first group, the two command integers left out
GroupCoords(s) ==
    SubSeq(s, 2, 1 + dims) \o SubSeq(s, 3 + dims, GroupLen(s))

\* The handler calls of one group: begin(c + 1), c + 1 points, end
GroupCalls(s, cur, begin, point, end) ==
    <<Call(begin, GroupCount(s) + 1)>>
        \o [k \in 1..(GroupCount(s) + 1) |->
               Call(point, StreamPoints(GroupCoords(s), dims, cur)[k])]
        \o <<Call(end, 0)>>

RECURSIVE LinestringCalls(_, _)
LinestringCalls(s, cur) ==
    IF s = <<>> THEN <<>>
    ELSE GroupCalls(s, cur, "linestring_begin", "linestring_point", "linestring_end")
            \o LinestringCalls(SubSeq(s, GroupLen(s) + 1, Len(s)),
                               StreamPoints(GroupCoords(s), dims, cur)[GroupCount(s) + 1])

LinestringDecoded == op = "linestring" /\ dpc = "done"

\* C11: decode_linestring returns normally exactly on the streams made of
\* groups (MoveTo 1, point, LineTo c >= 1, c points), and then the calls are,
\* group by group, linestring_begin(c + 1), c + 1 times linestring_point,
\* linestring_end; every other stream ends in a geometry error.
C11_DecodeLinestring ==
    LinestringDecoded =>
        IF IsLinestringStream(stream)
        THEN outcome = Returned /\ calls = LinestringCalls(stream, Origin)
        ELSE outcome.kind = "geometry_exception"

\* C11 for the 2-D decoder alone
C11_DecodeLinestring2D == dims = 2 => C11_DecodeLinestring

C11_Witness2D ==
    /\ LinestringDecoded /\ dims = 2 /\ outcome = Returned
    /\ Len(stream) > GroupLen(stream)

\* ---------------------------------------------------------------- C12
\* knots_begin(n), one knots_value per knot in order, knots_end
KnotCalls ==
    <<Call("knots_begin", Len(knots.vals))>>
        \o [k \in 1..Len(knots.vals) |-> Call("knots_value", knots.vals[k])]
        \o <<Call("knots_end", 0)>>

SplineCalls ==
    GroupCalls(stream, Origin, "controlpoints_begin", "controlpoints_point", "controlpoints_end")
        \o KnotCalls

SplineDecoded == op = "spline" /\ dpc = "done" /\ HasGroup(stream)

\* C12: decode_spline on a stream that starts with one (MoveTo 1, point,
\* LineTo c >= 1, c points) pair makes the calls controlpoints_begin(c + 1),
\* c + 1 times controlpoints_point, controlpoints_end, knots_begin(n), one
\* knots_value per knot in order, knots_end, and nothing for a second pair;
\* it returns when the stream ends with the pair and raises 'additional data
\* after end of geometry' when an integer is left.
C12_DecodeSpline ==
    SplineDecoded =>
        /\ calls = SplineCalls
        /\ outcome = IF Len(stream) = GroupLen(stream) THEN Returned
                     ELSE geometry_exception("additional data after end of geometry (spec 4.3.4.2)")

\* C12 for knot data whose size is a multiple of sizeof(double)
C12_DecodeSplineWholeKnots == knots.tail = 0 => C12_DecodeSpline

C12_WitnessWholeKnots ==
    /\ SplineDecoded /\ knots.tail = 0 /\ Len(knots.vals) = 2
    /\ Len(stream) > GroupLen(stream)

\* ---------------------------------------------------------------- C13
\* The decode functions are about to call next_point
AtNextPoint ==
    /\ outcome = Running
    /\ \/ dpc = "first"
       \/ dpc \in {"points", "ring", "line"} /\ count(dec) > 0

Remaining == m_end - dec.m_it

\* C13: a call of next_point with fewer integers left than the decoder has
\* dimensions raises 'too few points in geometry' and consumes nothing; any
\* other call consumes exactly Dimensions integers, none of them past the end.
C13_NextPointInBounds ==
    [][AtNextPoint =>
          IF Remaining < dims
          THEN /\ outcome' = geometry_exception("too few points in geometry")
               /\ dec'.m_it = dec.m_it
          ELSE /\ dec'.m_it = dec.m_it + dims
               /\ dec'.m_it <= m_end]_vars

\* C13 for the 2-D decoder alone
C13_NextPointInBounds2D ==
    [][dims = 2 /\ AtNextPoint =>
          IF Remaining < dims
          THEN /\ outcome' = geometry_exception("too few points in geometry")
               /\ dec'.m_it = dec.m_it
          ELSE /\ dec'.m_it = dec.m_it + dims
               /\ dec'.m_it <= m_end]_vars

\* ---------------------------------------------------------------- C14
\* The sum of a coordinate and a delta: exact, or reduced to 32 bits
SumOf(a, b, wrap) == IF wrap THEN ToInt32(a + b) ELSE a + b

\* The running sums of the deltas in s, taken d integers at a time
RECURSIVE SumPoints(_, _, _, _)
SumPoints(s, d, cur, wrap) ==
    IF Len(s) < d THEN <<>>
    ELSE LET p == Point(SumOf(cur.x, decode_zigzag32(s[1]), wrap),
                        SumOf(cur.y, decode_zigzag32(s[2]), wrap),
                        IF d = 3 THEN SumOf(cur.z, decode_zigzag32(s[3]), wrap) ELSE 0)
         IN  <<p>> \o SumPoints(SubSeq(s, d + 1, Len(s)), d, p, wrap)

MinOf(a, b) == IF a < b THEN a ELSE b

\* The points a geometry stream stands for, read command by command: the
\* cursor starts at cur and is carried over from command to command, a
\* ClosePath stands for the point of the last MoveTo and leaves the cursor.
RECURSIVE CursorPoints(_, _, _, _, _)
CursorPoints(s, d, cur, start, wrap) ==
    IF s = <<>> THEN <<>>
    ELSE IF get_command_id(s[1]) = 7
    THEN <<start>> \o CursorPoints(Tail(s), d, cur, start, wrap)
    ELSE IF get_command_id(s[1]) \in {1, 2}
    THEN LET c == get_command_count(s[1])
             n == MinOf(c, (Len(s) - 1) \div d)
             pts == SumPoints(SubSeq(s, 2, 1 + n * d), d, cur, wrap)
             last == IF n = 0 THEN cur ELSE pts[n]
         IN  IF n < c THEN pts
             ELSE pts \o CursorPoints(SubSeq(s, 2 + n * d, Len(s)), d, last,
                                      IF get_command_id(s[1]) = 1 THEN last ELSE start, wrap)
    ELSE <<>>

PointCallNames == {"points_point", "linestring_point", "ring_point", "controlpoints_point"}

IsPointCall(c) == c.f \in PointCallNames

\* The points handed to the handler so far, in call order
HandlerPoints == [k \in 1..Len(SelectSeq(calls, IsPointCall)) |-> SelectSeq(calls, IsPointCall)[k].a]

IsPrefix(a, b) == Len(a) <= Len(b) /\ a = SubSeq(b, 1, Len(a))

\* C14: the points passed to the handler are, in order, the running sums of
\* the coordinate deltas of the stream, from the origin on and carried over
\* from command to command; the closing point of a ring is the ring's start.
C14_CursorIsSumOfDeltas ==
    IsPrefix(HandlerPoints, CursorPoints(stream, dims, Origin, Origin, FALSE))

\* C14 with the sums reduced to signed 32 bits, for the 2-D decoder
C14_CursorIsWrappedSum2D ==
    dims = 2 => IsPrefix(HandlerPoints, CursorPoints(stream, dims, Origin, Origin, TRUE))

\* two linestrings were decoded, the second one starting where the first ended
C14_WitnessWrappedSum2D ==
    /\ dims = 2 /\ op = "linestring" /\ outcome = Returned
    /\ Len(HandlerPoints) >= 4
    /\ HandlerPoints[Len(HandlerPoints)] # Origin

\* ============================================== writing and reading back
MaxGeoms == 2
MaxPointCalls == 3

\* Coordinates at the ends of the int32 range and in the middle of it
RoundPoints == {Point(Int32Min, 0, 0), Point(0, 1, 0), Point(Int32Max, 1, 0)}

SCall(f, n, p) == [f |-> f, n |-> n, p |-> p]

\* Sequences of 1..n elements of S
SeqsUpTo(S, n) == UNION {[1..k -> S] : k \in 1..n}

NoRepeat(ps) == \A i \in 1..(Len(ps) - 1) : ps[i] # ps[i + 1]

\* add_linestring(n) and its n set_point calls
LinestringCallsOf(ps) ==
    <<SCall("add_linestring", Len(ps), Origin)>> \o [i \in 1..Len(ps) |-> SCall("set_point", 0, ps[i])]

\* linestrings of n points, no two consecutive points equal
Linestrings(n) == {LinestringCallsOf(ps) : ps \in {q \in [1..n -> RoundPoints] : NoRepeat(q)}}

\* add_ring(n) and its n set_point calls, or n - 1 of them and close_ring()
RingCallsOf(ps, closed) ==
    <<SCall("add_ring", Len(ps), Origin)>>
        \o [i \in 1..(Len(ps) - 1) |-> SCall("set_point", 0, ps[i])]
        \o <<IF closed THEN SCall("close_ring", 0, Origin) ELSE SCall("set_point", 0, ps[Len(ps)])>>

\* rings of n points, the last equal to the first, no two consecutive points equal
Rings(n) ==
    {RingCallsOf(ps, closed) :
        ps \in {q \in [1..n -> RoundPoints] : NoRepeat(q) /\ q[n] = q[1]},
        closed \in BOOLEAN}

\* One geometry of the smallest size or the next, or up to MaxGeoms of the smallest
GeomScripts(Shapes(_), min) ==
    Shapes(min) \cup Shapes(min + 1) \cup {Flatten(g) : g \in SeqsUpTo(Shapes(min), MaxGeoms)}

PointBuilderCalls ==
    {SCall("add_point", 0, p) : p \in RoundPoints}
        \cup {SCall("add_points", n, Origin) : n \in {1, 2}}
        \cup {SCall("set_point", 0, p) : p \in RoundPoints}

Scripts ==
    {[kind |-> "linestring", calls |-> c, ftrapv |-> t] :
        c \in GeomScripts(Linestrings, 2), t \in BOOLEAN}
    \cup {[kind |-> "polygon", calls |-> c, ftrapv |-> t] :
        c \in GeomScripts(Rings, 4), t \in BOOLEAN}
    \cup {[kind |-> "point", calls |-> c, ftrapv |-> t] :
        c \in SeqsUpTo(PointBuilderCalls, MaxPointCalls), t \in BOOLEAN}

\* the call the script makes next
AtCall(f) ==
    /\ script # NoScript
    /\ Live
    /\ hist.ncalls <= Len(script.calls)
    /\ script.calls[hist.ncalls].f = f

ScriptCall == script.calls[hist.ncalls]

RunNewBuilder ==
    /\ script # NoScript /\ scope = "none" /\ bout = Running
    /\ scope' = "live"
    /\ Leaves(feature_builder(World, script.kind, 1),
              [NoHist EXCEPT !.n = 1, !.f = "feature_builder", !.ncalls = 1])

RunAddPoint ==
    /\ AtCall("add_point")
    /\ UNCHANGED scope
    /\ LET w1 == add_point(World, ScriptCall.p)
       IN  Leaves(w1, Called("add_point", 0, w1))

RunAddPoints ==
    /\ AtCall("add_points")
    /\ UNCHANGED scope
    /\ LET w1 == add_points(World, ScriptCall.n)
       IN  Leaves(w1, Called("add_points", ScriptCall.n, w1))

RunSetPoint ==
    /\ AtCall("set_point")
    /\ UNCHANGED scope
    /\ LET w1 == set_point(World, ScriptCall.p)
       IN  Leaves(w1, Called("set_point", 0, w1))

RunAddLinestring ==
    /\ AtCall("add_linestring")
    /\ UNCHANGED scope
    /\ LET w1 == add_linestring(World, ScriptCall.n)
       IN  Leaves(w1, Called("add_linestring", ScriptCall.n, w1))

RunAddRing ==
    /\ AtCall("add_ring")
    /\ UNCHANGED scope
    /\ LET w1 == add_ring(World, ScriptCall.n)
       IN  Leaves(w1, Called("add_ring", ScriptCall.n, w1))

RunCloseRing ==
    /\ AtCall("close_ring")
    /\ UNCHANGED scope
    /\ LET w1 == close_ring(World)
       IN  Leaves(w1, Called("close_ring", 0, w1))

RunCommit ==
    /\ script # NoScript /\ Live
    /\ hist.ncalls = Len(script.calls) + 1
    /\ UNCHANGED scope
    /\ LET w1 == commit(World)
       IN  Leaves(w1, Called("commit", 0, w1))

\* feature.geometry() of the feature written last: its geometry field
GeometryField(feature) ==
    LET i == CHOOSE k \in 1..Len(feature.body) :
                 feature.body[k].t = "msg" /\ feature.body[k].tag = "geometry"
    IN  [k \in 1..Len(feature.body[i].body) |-> feature.body[i].body[k].v]

\* decode_point_geometry, decode_linestring_geometry, decode_polygon_geometry
\* of the committed feature, up to the call of the decode function
DecodeCommitted ==
    /\ script # NoScript /\ hist.f = "commit" /\ bout = Running
    /\ layer.m_num_features = 1
    /\ hist' = [hist EXCEPT !.f = "decode"]
    /\ stream' = GeometryField(layer.m_data[Len(layer.m_data)])
    /\ dims' = 2
    /\ op' = script.kind
    /\ dec' = geometry_decoder(Len(stream') \div 2)
    /\ loc' = NoLocals
    /\ calls' = <<>>
    /\ IF Len(stream') \div 2 <= max_command_count
       THEN dpc' = "start" /\ outcome' = Running
       ELSE dpc' = "done" /\ outcome' = AssertFailed("max <= detail::max_command_count()")
    /\ UNCHANGED <<layer, fb, scope, bout, knots, script, tile, geom, reader>>

RoundInit ==
    /\ script \in Scripts
    /\ tile = NoTile
    /\ geom = NoGeom
    /\ reader = NoReader
    /\ layer = layer_builder_impl
    /\ fb = NoBuilder
    /\ scope = "none"
    /\ bout = Running
    /\ hist = NoHist
    /\ stream = <<>>
    /\ knots = NoKnots
    /\ dims = 2
    /\ op = "point"
    /\ dec = geometry_decoder(0)
    /\ loc = NoLocals
    /\ dpc = "done"
    /\ calls = <<>>
    /\ outcome = Returned

RoundNext ==
    \/ RunNewBuilder
    \/ RunAddPoint
    \/ RunAddPoints
    \/ RunSetPoint
    \/ RunAddLinestring
    \/ RunAddRing
    \/ RunCloseRing
    \/ RunCommit
    \/ DecodeCommitted
    \/ DecodePointBegin
    \/ DecodePointPoint
    \/ DecodePointEnd
    \/ DecodePolygonMoveTo
    \/ DecodePolygonFirst
    \/ DecodePolygonLineTo
    \/ DecodePolygonPoint
    \/ DecodePolygonClose
    \/ DecodeLinestringMoveTo
    \/ DecodeLinestringFirst
    \/ DecodeLinestringLineTo
    \/ DecodeLinestringPoint
    \/ DecodeLinestringEnd

RoundSpec == RoundInit /\ [][RoundNext]_vars

\* ---------------------------------------------------------------- C15
\* The handler calls that hand back what the script wrote: per add_linestring(n)
\* or add_ring(n) a begin(n), the n points and an end; close_ring() stands
\* for the first point of its ring
RECURSIVE GivenCalls(_, _, _, _)
GivenCalls(cs, begin, point, end) ==
    IF cs = <<>> THEN <<>>
    ELSE LET n == cs[1].n
         IN  <<Call(begin, n)>>
                 \o [k \in 1..n |-> Call(point, IF cs[1 + k].f = "close_ring"
                                                THEN cs[2].p ELSE cs[1 + k].p)]
                 \o <<Call(end, 0)>>
                 \o GivenCalls(SubSeq(cs, n + 2, Len(cs)), begin, point, end)

\* the script was run, committed, and the committed geometry decoded
Decoded(kind) == script.kind = kind /\ hist.f = "decode" /\ dpc = "done"

\* C15: every script of linestrings (add_linestring(n), n set_point calls with
\* no two consecutive points equal) runs through to its commit, and
\* decode_linestring on the committed geometry returns after handing back
\* the same linestrings, point by point.
C15_LinestringRoundTrip ==
    script.kind = "linestring" =>
        /\ bout = Running
        /\ Decoded("linestring") =>
              /\ outcome = Returned
              /\ calls = GivenCalls(script.calls, "linestring_begin", "linestring_point",
                                    "linestring_end")

\* C15 for builds in which a coordinate difference out of the int32 range wraps
C15_LinestringRoundTripWrapping == ~script.ftrapv => C15_LinestringRoundTrip

\* two linestrings were read back, one of them written with a wrapped difference
C15_WitnessWrapping ==
    /\ Decoded("linestring") /\ ~script.ftrapv /\ outcome = Returned
    /\ Len(script.calls) = 6
    /\ script.calls[2].p.x = Int32Min /\ script.calls[3].p.x = Int32Max

\* ---------------------------------------------------------------- C16
\* C16: every script of rings (add_ring(n), then n set_point calls with the
\* last point equal to the first, or n - 1 set_point calls and close_ring)
\* runs through to its commit, and decode_polygon on the committed geometry
\* returns after handing back the same rings: ring_begin(n), the n points,
\* ring_end (whatever ring type it passes to ring_end).
C16_PolygonRoundTrip ==
    script.kind = "polygon" =>
        /\ bout = Running
        /\ Decoded("polygon") =>
              /\ outcome = Returned
              /\ [k \in 1..Len(calls) |-> IF calls[k].f = "ring_end" THEN Call("ring_end", 0)
                                           ELSE calls[k]]
                    = GivenCalls(script.calls, "ring_begin", "ring_point", "ring_end")

\* C16 for builds in which a coordinate difference out of the int32 range wraps
C16_PolygonRoundTripWrapping == ~script.ftrapv => C16_PolygonRoundTrip

\* two rings were read back, the first closed by close_ring()
C16_WitnessWrapping ==
    /\ Decoded("polygon") /\ ~script.ftrapv /\ outcome = Returned
    /\ Len(script.calls) = 10
    /\ script.calls[5].f = "close_ring"

\* ---------------------------------------------------------------- C17
\* The points a point script gives to the builder, in call order
GivenPoints ==
    [k \in 1..Len(SelectSeq(script.calls, LAMBDA c : c.f \in {"add_point", "set_point"})) |->
        SelectSeq(script.calls, LAMBDA c : c.f \in {"add_point", "set_point"})[k].p]

\* C17: when the calls of a point script and the commit raise no assertion,
\* decode_point on the committed geometry returns after handing the handler
\* exactly the points given to the builder, in call order.
C17_PointRoundTrip ==
    Decoded("point") => outcome = Returned /\ HandlerPoints = GivenPoints

\* a point script of one of the two forms: add_point(p), or add_points(n)
\* followed by n set_point calls
WholePointScript ==
    /\ script.kind = "point"
    /\ \/ Len(script.calls) = 1 /\ script.calls[1].f = "add_point"
       \/ /\ script.calls[1].f = "add_points"
          /\ Len(script.calls) = script.calls[1].n + 1
          /\ \A k \in 2..Len(script.calls) : script.calls[k].f = "set_point"

\* C17 for the scripts of the two forms, in a build where differences wrap
C17_PointRoundTripWhole ==
    WholePointScript /\ ~script.ftrapv =>
        /\ bout = Running
        /\ Decoded("point") => outcome = Returned /\ HandlerPoints = GivenPoints

C17_WitnessWhole ==
    /\ WholePointScript /\ ~script.ftrapv /\ Decoded("point")
    /\ Len(script.calls) = 3
    /\ script.calls[2].p.x = Int32Min /\ script.calls[3].p.x = Int32Max

\* ===================================================== the tile builder
MaxFields == 2
MaxLayerCalls == 3

\* ---- the bytes of a tile: fields of a key, a length and a payload
\* protozero varint of a length below 128: one byte, or two when the writer
\* of the tile padded it
LengthBytes(n, padded) == IF padded THEN <<128 + n, 0>> ELSE <<n>>

\* key of a length-delimited field: (tag << 3) | 2
KeyByte(tag) == tag * 8 + 2

FieldBytes(tag, payload, padded) ==
    <<KeyByte(tag)>> \o LengthBytes(Len(payload), padded) \o payload

\* layers = 3 is the one tag of a tile; readers skip the others
LayersTag == 3

LayerPayloads == {<<10, 1>>, <<10, 1, 120>>}

\* the fields of a tile as its writer chose them
TileFields ==
    [tag : {LayersTag, 4}, payload : LayerPayloads, padded : BOOLEAN]

Tiles == {<<>>} \cup SeqsUpTo(TileFields, MaxFields)

TileBytes(fs) ==
    Flatten([i \in 1..Len(fs) |-> FieldBytes(fs[i].tag, fs[i].payload, fs[i].padded)])

\* ---- vector_tile::next_layer(): the payload of the next layers field at
\* or after position pos of the buffer, and the position behind it
LengthAt(b, i) == IF b[i] >= 128 THEN (b[i] - 128) + 128 * b[i + 1] ELSE b[i]

LengthSize(b, i) == IF b[i] >= 128 THEN 2 ELSE 1

RECURSIVE next_layer(_, _)
next_layer(b, pos) ==
    IF pos > Len(b) THEN [found |-> FALSE, data |-> <<>>, pos |-> pos]
    ELSE LET from == pos + 1 + LengthSize(b, pos + 1)
             to == from + LengthAt(b, pos + 1)
         IN  IF b[pos] = KeyByte(LayersTag)
             THEN [found |-> TRUE, data |-> SubSeq(b, from, to - 1), pos |-> to]
             ELSE next_layer(b, to)

\* ---- tile_builder
\* an add_existing_layer() that keeps the first layer only
add_first_layer_only(t, data) ==
    IF t.m_layers = <<>> THEN [t EXCEPT !.m_layers = Append(@, [existing |-> TRUE, data |-> data])]
    ELSE t

\* m_layers.emplace_back(new layer_builder_existing{data})
add_existing_layer(t, data) ==
    [t EXCEPT !.m_layers = Append(@, [existing |-> TRUE, data |-> data])]

\* layer_builder_existing::build: the layer as one field of the tile
build(l) == FieldBytes(LayersTag, l.data, FALSE)

\* a serialize() that builds the layer added last first
serialize_newest_first(t) ==
    Flatten([i \in 1..Len(t.m_layers) |-> build(t.m_layers[Len(t.m_layers) + 1 - i])])

\* serialize(): every layer's build() in the order of m_layers
serialize(t) == Flatten([i \in 1..Len(t.m_layers) |-> build(t.m_layers[i])])

layerVars == <<layer, fb, scope, bout, hist>>

\* while (auto layer = tile.next_layer()) tbuilder.add_existing_layer(layer)
AddExistingLayer ==
    /\ tile.mode = "copy" /\ tile.f # "serialize"
    /\ next_layer(tile.input, tile.pos).found
    /\ tile' = [add_existing_layer(tile, next_layer(tile.input, tile.pos).data) EXCEPT
                   !.pos = next_layer(tile.input, tile.pos).pos,
                   !.f = "add_existing_layer"]
    /\ UNCHANGED <<layerVars, decVars, script>>

Serialize ==
    /\ tile.mode = "copy" /\ tile.f # "serialize"
    /\ ~next_layer(tile.input, tile.pos).found
    /\ tile' = [tile EXCEPT !.out = serialize(tile), !.f = "serialize"]
    /\ UNCHANGED <<layerVars, decVars, script>>

\* what a caller's buffer holds before it is handed to serialize(buffer)
Buffers == {<<>>, <<255, 0>>}

\* tbuilder.serialize(buffer), at any time between the add_existing_layer
\* calls: pre is the buffer before the call, out the buffer after it
SerializeTo ==
    \E buffer \in Buffers :
        /\ tile.mode = "copy" /\ tile.f # "serialize"
        /\ tile.ncalls < MaxLayerCalls
        /\ tile' = [tile EXCEPT !.pre = buffer, !.out = buffer \o serialize(tile),
                                !.f = "serialize_to", !.ncalls = @ + 1]
        /\ UNCHANGED <<layerVars, decVars, script>>

\* ---- layer_builder: the key and value tables
\* keys as their bytes: "k1", "k2"
KeyInputs == {<<107, 49>>, <<107, 50>>}

\* values before they are encoded: the string "v1", the int 19, the double 19.0
TypedValue(kind, s, v) == [kind |-> kind, s |-> s, v |-> v]

TypedValues ==
    {TypedValue("string", <<118, 49>>, 0), TypedValue("int", <<>>, 19),
     TypedValue("double", <<>>, 19)}

\* the fixed64 bytes of the doubles 19.0 and 22.0, little-endian
DoubleBytes(v) ==
    IF v = 19 THEN <<0, 0, 0, 0, 0, 0, 51, 64>> ELSE <<0, 0, 0, 0, 0, 0, 54, 64>>

\* encoded_property_value: the field of the Value message for the kind
\* (string_value = 1, double_value = 3, int_value = 4)
EncodeValue(tv) ==
    IF tv.kind = "string" THEN <<1 * 8 + 2, Len(tv.s)>> \o tv.s
    ELSE IF tv.kind = "int" THEN <<4 * 8 + 0, tv.v>>
    ELSE <<3 * 8 + 1>> \o DoubleBytes(tv.v)

\* layer_builder_impl::add_key_without_dup_check / add_value_without_dup_check
add_key_without_dup_check(w, text) ==
    IF w.out # Running THEN w ELSE [w EXCEPT !.layer.keys = Append(@, text)]

add_value_without_dup_check(w, text) ==
    IF w.out # Running THEN w ELSE [w EXCEPT !.layer.values = Append(@, text)]

\* the index_value a call returns: the world after it and the index
Ret(w, idx) == [w |-> w, idx |-> idx]

layer_add_key_without_dup_check(w, text) ==
    Ret(add_key_without_dup_check(w, text), Len(w.layer.keys))

\* a layer_builder::add_key() that forwards to add_key_without_dup_check()
layer_add_key_appending(w, text) ==
    Ret(add_key_without_dup_check(w, text), Len(w.layer.keys))

layer_add_key(w, text) ==
    Ret(add_key(w, text), IndexIn(add_key(w, text).layer.keys, text) - 1)

layer_add_value_without_dup_check(w, text) ==
    Ret(add_value_without_dup_check(w, text), Len(w.layer.values))

layer_add_value(w, text) ==
    Ret(add_value(w, text), IndexIn(add_value(w, text).layer.values, text) - 1)

\* a call on the layer builder: f(arg) returned r.idx and left r.w
LayerCall(f, table, arg, r) ==
    /\ layer' = r.w.layer
    /\ fb' = r.w.fb
    /\ bout' = r.w.out
    /\ tile' = [tile EXCEPT !.f = f, !.arg = arg, !.ret = r.idx, !.ncalls = @ + 1,
                            !.pre = layer,
                            !.rets = IF f \in {"add_key", "add_value"}
                                     THEN @ \cup {[table |-> table, in |-> arg, idx |-> r.idx]}
                                     ELSE @]
    /\ UNCHANGED <<scope, hist, decVars, script>>

\* the program goes on building the layer
Building == tile.mode = "build" /\ tile.ncalls < MaxLayerCalls /\ bout = Running

AddKey ==
    \E s \in KeyInputs :
        /\ Building
        /\ LayerCall("add_key", "keys", s, layer_add_key(World, s))

AddKeyWithoutDupCheck ==
    \E s \in KeyInputs :
        /\ Building
        /\ LayerCall("add_key_without_dup_check", "keys", s,
                     layer_add_key_without_dup_check(World, s))

AddValue ==
    \E tv \in TypedValues :
        /\ Building
        /\ LayerCall("add_value", "values", EncodeValue(tv),
                     layer_add_value(World, EncodeValue(tv)))

AddValueWithoutDupCheck ==
    \E tv \in TypedValues :
        /\ Building
        /\ LayerCall("add_value_without_dup_check", "values", EncodeValue(tv),
                     layer_add_value_without_dup_check(World, EncodeValue(tv)))

\* ---- layer_builder::add_feature
Property(k, tv) == [key |-> k, value |-> EncodeValue(tv)]

PropertyLists ==
    {<<>>,
     <<Property(<<107, 49>>, TypedValue("int", <<>>, 19))>>,
     <<Property(<<107, 50>>, TypedValue("double", <<>>, 19)),
       Property(<<107, 49>>, TypedValue("int", <<>>, 19))>>}

\* features of an existing layer: id, GeomType, geometry data, knots, properties
Features ==
    {[id |-> 7, type |-> 1, data |-> <<9, 2, 4>>, knots |-> <<>>, props |-> ps] :
        ps \in PropertyLists}
    \cup {[id |-> 8, type |-> 4, data |-> <<9, 2, 4, 10, 2, 4>>, knots |-> k, props |-> ps] :
        k \in {<<>>, <<"k1", "k2">>}, ps \in PropertyLists}

\* geometry_feature_builder(layer, geometry, id)
geometry_feature_builder(w, geometry, id) ==
    LET w0 == [w EXCEPT !.fb = [NoBuilder EXCEPT !.kind = "geometry"]]
        w1 == feature_builder_base(w0, id)
        w2 == add_item(w1, "m_feature_writer", Field("type", geometry.type))
        w3 == add_item(w2, "m_feature_writer",
                       Msg("geometry", [i \in 1..Len(geometry.data) |-> Elem(geometry.data[i])]))
    IN  sub_writer(w3, "m_pbf_tags", "tags")

\* feature.for_each_property(feature_builder.add_property(p))
RECURSIVE add_properties(_, _)
add_properties(w, ps) ==
    IF ps = <<>> THEN w
    ELSE add_properties(add_property_impl(w, ps[1].key, ps[1].value), Tail(ps))

\* ~geometry_feature_builder(), then the members
geometry_feature_builder_destroy(w) ==
    writer_destroy(writer_destroy(do_commit(w), "m_pbf_tags"), "m_feature_writer")

\* layer_builder::add_feature
add_feature(w, feature) ==
    geometry_feature_builder_destroy(
        add_properties(
            geometry_feature_builder(w, [type |-> feature.type, data |-> feature.data,
                                         knots |-> feature.knots], feature.id),
            feature.props))

AddFeature ==
    \E f \in Features :
        /\ Building
        /\ LayerCall("add_feature", "", f, Ret(add_feature(World, f), 0))

TileInit ==
    /\ tile \in {[NoTile EXCEPT !.mode = "copy", !.fields = fs, !.input = TileBytes(fs)] :
                    fs \in Tiles}
                \cup {[NoTile EXCEPT !.mode = "build"]}
    /\ script = NoScript
    /\ geom = NoGeom
    /\ reader = NoReader
    /\ layer = layer_builder_impl
    /\ fb = NoBuilder
    /\ scope = "none"
    /\ bout = Running
    /\ hist = NoHist
    /\ stream = <<>>
    /\ knots = NoKnots
    /\ dims = 2
    /\ op = "point"
    /\ dec = geometry_decoder(0)
    /\ loc = NoLocals
    /\ dpc = "done"
    /\ calls = <<>>
    /\ outcome = Returned

TileNext ==
    \/ AddExistingLayer
    \/ Serialize
    \/ SerializeTo
    \/ AddKey
    \/ AddKeyWithoutDupCheck
    \/ AddValue
    \/ AddValueWithoutDupCheck
    \/ AddFeature

TileSpec == TileInit /\ [][TileNext]_vars

\* ---------------------------------------------------------------- C18
Serialized == tile.mode = "copy" /\ tile.f = "serialize"

LayersOf(fs) ==
    TileBytes([i \in 1..Len(SelectSeq(fs, LAMBDA f : f.tag = LayersTag)) |->
                  [SelectSeq(fs, LAMBDA f : f.tag = LayersTag)[i] EXCEPT !.padded = FALSE]])

OnlyPlainLayers(fs) == \A i \in 1..Len(fs) : fs[i].tag = LayersTag /\ ~fs[i].padded

FieldOf(body, tag, default) ==
    IF \E i \in 1..Len(body) : body[i].tag = tag
    THEN body[CHOOSE i \in 1..Len(body) : body[i].tag = tag]
    ELSE default

ValuesOf(items) == [i \in 1..Len(items) |-> items[i].v]

ReadFeature(rec, l) ==
    LET tags == ValuesOf(FieldOf(rec.body, "tags", Msg("tags", <<>>)).body)
    IN  [id |-> FieldOf(rec.body, "id", Field("id", 0)).v,
         type |-> FieldOf(rec.body, "type", Field("type", 0)).v,
         data |-> ValuesOf(FieldOf(rec.body, "geometry", Msg("geometry", <<>>)).body),
         knots |-> ValuesOf(FieldOf(rec.body, "knots", Msg("knots", <<>>)).body),
         props |-> [k \in 1..(Len(tags) \div 2) |->
                       [key |-> l.keys[tags[2 * k - 1] + 1],
                        value |-> l.values[tags[2 * k] + 1]]]]

FeatureAdded == tile.f = "add_feature"

\* C19: add_feature(f) returns with exactly one feature record more in the
\* layer and a feature count one higher, and the record reads back as f: its
\* id, its geometry type, its geometry data, its knots, and its properties
\* as the same key/value pairs in the same order.
C19_AddFeatureCopies ==
    FeatureAdded =>
        /\ bout = Running
        /\ layer.m_num_features = tile.pre.m_num_features + 1
        /\ Len(layer.m_data) = Len(tile.pre.m_data) + 1
        /\ SubSeq(layer.m_data, 1, Len(tile.pre.m_data)) = tile.pre.m_data
        /\ layer.m_data[Len(layer.m_data)].tag = "features"
        /\ ReadFeature(layer.m_data[Len(layer.m_data)], layer) = tile.arg

\* C19 for features without knots
C19_AddFeatureCopiesNoKnots ==
    (FeatureAdded /\ tile.arg.knots = <<>>) => C19_AddFeatureCopies

C19_WitnessNoKnots ==
    /\ FeatureAdded /\ tile.arg.knots = <<>> /\ tile.arg.type = 4
    /\ Len(tile.arg.props) = 2
    /\ layer.m_num_features = 2

\* ---------------------------------------------------------------- C20
\* the table a deduplicating call worked on, before and after it
TableBefore == IF tile.f = "add_key" THEN tile.pre.keys ELSE tile.pre.values

TableAfter == IF tile.f = "add_key" THEN layer.keys ELSE layer.values

\* C20: add_key and add_value return the index of the first entry of the
\* table that has the bytes of the input, whichever call added it, and leave
\* the table as it is; when there is none they append the input and return
\* its index. So the deduplicating calls return the same index for the same
\* bytes and different indices for different bytes (the int 19 and the
\* double 19.0 among them).
C20_Deduplicates ==
    /\ tile.f \in {"add_key", "add_value"} =>
          IF \E i \in 1..Len(TableBefore) : TableBefore[i] = tile.arg
          THEN /\ TableAfter = TableBefore
               /\ TableBefore[tile.ret + 1] = tile.arg
          ELSE /\ TableAfter = Append(TableBefore, tile.arg)
               /\ tile.ret = Len(TableBefore)
    /\ \A a, b \in tile.rets :
          a.table = b.table => (a.in = b.in <=> a.idx = b.idx)

\* add_key returned the index of an entry that add_key_without_dup_check made
C20_Witness ==
    /\ tile.f = "add_key" /\ tile.ncalls = 3
    /\ tile.ret = 0 /\ Len(layer.keys) = 2
    /\ layer.keys[1] # layer.keys[2]
    /\ tile.rets = {[table |-> "keys", in |-> tile.arg, idx |-> 0]}

\* ---------------------------------------------------------------- C30
\* decode_polygon is about to read the ClosePath of a ring
ExpectsClosePath == op = "polygon" /\ dpc = "ring" /\ outcome = Running /\ count(dec) = 0

BadClosePath ==
    /\ dec.m_it < m_end
    /\ get_command_id(stream[dec.m_it]) = command_close_path(0)
    /\ get_command_count(stream[dec.m_it]) # 1

\* C30: when the polygon decoder expects a ClosePath and the next integer
\* has command id 7 with a count other than 1 (0 included), the decoder is
\* left with the geometry error "ClosePath command count is not 1" and no
\* further call is made on the handler: no ring_end for that ring.
C30_ClosePathCountIsOne ==
    [][(ExpectsClosePath /\ BadClosePath) =>
          /\ outcome' = geometry_exception("ClosePath command count is not 1")
          /\ calls' = calls]_vars

\* a ring with its points delivered was refused for a ClosePath of count 0
C30_Witness ==
    /\ op = "polygon"
    /\ outcome = geometry_exception("ClosePath command count is not 1")
    /\ dec.m_it < m_end
    /\ stream[dec.m_it] = command_close_path(0)
    /\ Len(calls) >= 3
    /\ calls[Len(calls)].f = "ring_point"

\* ---------------------------------------------------------------- C26
\* C26: rollback() on a builder that was committed fails an assertion and
\* leaves the layer, with the committed feature and the feature count, as
\* it is.
C26_RollbackAfterCommitFails ==
    [][CallStep("rollback") /\ hist.term = "committed"
          => bout'.kind = "assertion" /\ SameLayer]_vars

C26_Witness ==
    /\ hist.f = "rollback" /\ hist.term = "committed" /\ hist.geom
    /\ bout.kind = "assertion"
    /\ OneRecordMore

\* ---------------------------------------------------------------- C27
\* C27: commit() on a builder that was rolled back fails an assertion, and
\* the layer gets no feature.
C27_CommitAfterRollbackFails ==
    [][CallStep("commit") /\ hist.term = "rolled"
          => bout'.kind = "assertion" /\ SameLayer]_vars

\* the part of C27 on the layer
C27_CommitAfterRollbackAddsNothing ==
    [][CallStep("commit") /\ hist.term = "rolled" => SameLayer /\ LayerAsBefore']_vars

C27_WitnessAddsNothing ==
    /\ hist.f = "commit" /\ hist.term = "rolled" /\ hist.geom
    /\ bout = Running
    /\ LayerAsBefore

\* ------------------------------------------- the decode_*_geometry functions
\* GeomType: UNKNOWN 0, POINT 1, LINESTRING 2, POLYGON 3, SPLINE 4; a feature
\* can carry any other number as its type
GeomTypes == 0..5

EntryPoints ==
    {"decode_geometry", "decode_point_geometry", "decode_linestring_geometry",
     "decode_spline_geometry", "decode_polygon_geometry"}

\* geometries given to them: empty, points, a linestring, a ring, and some
\* that are none of these
EntryStreams ==
    {<<>>,
     <<command_move_to(1), 2, 4>>,
     <<command_move_to(2), 2, 4, 3, 0>>,
     <<command_move_to(1), 2, 4, command_line_to(1), 3, 0>>,
     <<command_move_to(1), 2, 4, command_line_to(2), 3, 0, 2, 4>>,
     <<command_move_to(1), 2, 4, command_line_to(2), 3, 0, 2, 4, command_close_path(1)>>,
     <<command_move_to(1), 2, 4, 6, command_line_to(1), 3, 0, 1>>,
     <<command_close_path(1)>>,
     <<command_move_to(1), 2>>}

EntryKnots == {NoKnots, [vals |-> <<"k1", "k2">>, tail |-> 0]}

\* a decode_geometry() that reads a spline as a linestring
decode_geometry_without_spline(type) ==
    IF type = 1 THEN "point"
    ELSE IF type = 2 \/ type = 4 THEN "linestring"
    ELSE IF type = 3 THEN "polygon"
    ELSE "unknown geometry type"

\* the switch of decode_geometry: the decode operation it runs
decode_geometry(type) ==
    IF type = 1 THEN "point"
    ELSE IF type = 2 THEN "linestring"
    ELSE IF type = 4 THEN "spline"
    ELSE IF type = 3 THEN "polygon"
    ELSE "unknown geometry type"

\* vtzero_assert(geometry.type() == GeomType::...) of a kind-specific function
asserted_type(f) ==
    IF f = "decode_point_geometry" THEN 1
    ELSE IF f = "decode_linestring_geometry" THEN 2
    ELSE IF f = "decode_spline_geometry" THEN 2
    ELSE 3

type_assertion(f) ==
    IF f = "decode_point_geometry" THEN "geometry.type() == GeomType::POINT"
    ELSE IF f = "decode_polygon_geometry" THEN "geometry.type() == GeomType::POLYGON"
    ELSE "geometry.type() == GeomType::LINESTRING"

\* the decoder a function constructs, and the decode operation it then runs
Construct(operation) ==
    /\ dec' = geometry_decoder(Len(stream) \div 2)
    /\ IF Len(stream) \div 2 <= max_command_count
       THEN op' = operation /\ dpc' = "start" /\ outcome' = Running
       ELSE op' = op /\ dpc' = "done"
            /\ outcome' = AssertFailed("max <= detail::max_command_count()")

Throw(o) == dec' = dec /\ op' = op /\ dpc' = "done" /\ outcome' = o

Entered(f) == dpc = "entry" /\ geom.f = f /\ outcome = Running

DecodeGeometry ==
    /\ Entered("decode_geometry")
    /\ UNCHANGED <<bldVars, knots, script, tile, geom, reader, stream, dims, loc, calls>>
    /\ IF decode_geometry(geom.type) = "unknown geometry type"
          /\ Len(stream) \div 2 <= max_command_count
       THEN Throw(geometry_exception("unknown geometry type"))
       ELSE Construct(decode_geometry(geom.type))

DecodePointGeometry ==
    /\ Entered("decode_point_geometry")
    /\ UNCHANGED <<bldVars, knots, script, tile, geom, reader, stream, dims, loc, calls>>
    /\ IF geom.type # asserted_type(geom.f)
       THEN Throw(AssertFailed(type_assertion(geom.f)))
       ELSE Construct("point")

DecodeLinestringGeometry ==
    /\ Entered("decode_linestring_geometry")
    /\ UNCHANGED <<bldVars, knots, script, tile, geom, reader, stream, dims, loc, calls>>
    /\ IF geom.type # asserted_type(geom.f)
       THEN Throw(AssertFailed(type_assertion(geom.f)))
       ELSE Construct("linestring")

DecodeSplineGeometry ==
    /\ Entered("decode_spline_geometry")
    /\ UNCHANGED <<bldVars, knots, script, tile, geom, reader, stream, dims, loc, calls>>
    /\ IF geom.type # asserted_type(geom.f)
       THEN Throw(AssertFailed(type_assertion(geom.f)))
       ELSE Construct("spline")

DecodePolygonGeometry ==
    /\ Entered("decode_polygon_geometry")
    /\ UNCHANGED <<bldVars, knots, script, tile, geom, reader, stream, dims, loc, calls>>
    /\ IF geom.type # asserted_type(geom.f)
       THEN Throw(AssertFailed(type_assertion(geom.f)))
       ELSE Construct("polygon")

GeomInit ==
    /\ stream \in EntryStreams
    /\ knots \in EntryKnots
    /\ dims \in {2, 3}
    /\ geom \in [type : GeomTypes, f : EntryPoints]
    /\ op = "none"
    /\ dec = geometry_decoder(0)
    /\ loc = NoLocals
    /\ dpc = "entry"
    /\ calls = <<>>
    /\ outcome = Running
    /\ layer = layer_builder_impl
    /\ fb = NoBuilder
    /\ scope = "none"
    /\ bout = Running
    /\ hist = NoHist
    /\ script = NoScript
    /\ tile = NoTile
    /\ reader = NoReader

GeomNext ==
    \/ DecodeGeometry
    \/ DecodePointGeometry
    \/ DecodeLinestringGeometry
    \/ DecodeSplineGeometry
    \/ DecodePolygonGeometry
    \/ DecodePointBegin
    \/ DecodePointPoint
    \/ DecodePointEnd
    \/ DecodePolygonMoveTo
    \/ DecodePolygonFirst
    \/ DecodePolygonLineTo
    \/ DecodePolygonPoint
    \/ DecodePolygonClose
    \/ DecodeLinestringMoveTo
    \/ DecodeLinestringFirst
    \/ DecodeLinestringLineTo
    \/ DecodeLinestringPoint
    \/ DecodeLinestringEnd
    \/ DecodeSplineMoveTo
    \/ DecodeSplineFirst
    \/ DecodeSplineLineTo
    \/ DecodeSplinePoint
    \/ DecodeSplineEnd
    \/ DecodeSplineKnot
    \/ DecodeSplineDone

GeomSpec == GeomInit /\ [][GeomNext]_vars

\* ---------------------------------------------------------------- C28
\* the sub-grammar of a geometry kind
SubGrammar(type) ==
    CASE type = 1 -> "point"
      [] type = 2 -> "linestring"
      [] type = 3 -> "polygon"
      [] type = 4 -> "spline"
      [] OTHER -> "none"

\* the state in which the decode operation `operation` starts on the
\* stream: a new decoder, no call made yet
Starts(operation) ==
    /\ op' = operation
    /\ dec' = geometry_decoder(Len(stream) \div 2)
    /\ loc' = NoLocals
    /\ calls' = <<>>
    /\ dpc' = "start"
    /\ outcome' = Running
    /\ UNCHANGED <<stream, knots, dims>>

\* C28: decode_geometry runs the decode operation of the geometry's kind
\* (POINT point, LINESTRING linestring, POLYGON polygon, SPLINE spline) on
\* a new decoder over the same stream and knots, so that it makes that
\* operation's callbacks and raises its errors; for UNKNOWN and every other
\* kind it raises a geometry error and makes no callback.
C28_DecodeGeometryDispatch ==
    /\ [][Entered("decode_geometry") =>
             IF geom.type \in 1..4
             THEN Starts(SubGrammar(geom.type))
             ELSE /\ outcome' = geometry_exception("unknown geometry type")
                  /\ dpc' = "done"
                  /\ calls' = <<>>]_vars
    /\ []((geom.f = "decode_geometry" /\ dpc # "entry") =>
             IF geom.type \in 1..4
             THEN op = SubGrammar(geom.type)
             ELSE calls = <<>> /\ outcome.kind = "geometry_exception")

\* decode_geometry decoded a spline with its knots
C28_Witness ==
    /\ geom = [type |-> 4, f |-> "decode_geometry"]
    /\ dpc = "done" /\ outcome = Returned
    /\ Len(calls) >= 7
    /\ calls[Len(calls)].f = "knots_end"

\* ---------------------------------------------------------------- C29
\* C29: the assertion of decode_spline_geometry holds exactly for a
\* geometry of kind SPLINE, and for a geometry of that kind the function
\* runs what decode_geometry runs: the spline decode operation on a new
\* decoder over the same stream and knots.
C29_DecodeSplineGeometry ==
    [][Entered("decode_spline_geometry") =>
          /\ outcome'.kind = "assertion" <=> geom.type # 4
          /\ geom.type = 4 => Starts("spline")]_vars

\* ------------------------------------------------------------ property_value
\* A value record is a sequence of fields; a field has the tag and the wire
\* type of its key and a payload: the number of a varint or fixed field
\* (n), the bytes of a length-delimited one (s).
ValueField(tag, wire, n, s) == [tag |-> tag, wire |-> wire, n |-> n, s |-> s]

\* tags 1 to 9 are the kinds of a value, 10 is no kind
ValueTags == 1..10

UInt64Max == Pow2(2 * WordBits) - 1

\* a bool is written as 0 or 1
VarintPayloads(tag) == IF tag = 7 THEN {0, 1} ELSE {0, 1, 3, UInt64Max}

BytePayloads == {<<>>, <<1>>, <<0, 1>>}

ValueFields ==
    UNION {{ValueField(t, "varint", n, <<>>) : n \in VarintPayloads(t)}
           \cup {ValueField(t, w, 19, <<>>) : w \in {"fixed32", "fixed64"}}
           \cup {ValueField(t, "length_delimited", 0, s) : s \in BytePayloads} :
           t \in ValueTags}

\* T::wire_type of the nine value types, the array `types`
wire_type(tag) ==
    <<"length_delimited", "fixed32", "fixed64", "varint", "varint", "varint", "varint",
      "length_delimited", "length_delimited">>[tag]

\* one field of each kind, as its writer writes it
KindFields ==
    {f \in ValueFields :
        /\ f.tag \in 1..9 /\ f.wire = wire_type(f.tag)
        /\ f.n \in {1, 19} \/ f.s = <<0, 1>>}

\* the records read: none, one field, or a field followed by another
ValueRecords ==
    {<<>>} \cup {<<f>> : f \in ValueFields}
        \cup {<<f, g>> : f \in ValueFields, g \in KindFields}

\* what a call on the value returns or throws
Value(type, n, s) == [kind |-> "value", type |-> type, n |-> n, s |-> s]

Thrown(kind) == [kind |-> kind, type |-> "", n |-> 0, s |-> <<>>]

NoResult == Thrown("")

\* a check_tag_and_type() that does not look at the wire type
check_tag_only(tag, type) ==
    IF tag < 1 \/ tag > 9 THEN FALSE ELSE TRUE

check_tag_and_type(tag, type) ==
    IF tag < 1 \/ tag > 9 THEN FALSE ELSE wire_type(tag) = type

\* property_value::type()
type(pv) ==
    IF ~pv.valid THEN Thrown("assertion")
    ELSE IF pv.m_value # <<>>
    THEN IF ~check_tag_and_type(pv.m_value[1].tag, pv.m_value[1].wire)
         THEN Thrown("format_exception")
         ELSE Value("property_value_type", pv.m_value[1].tag, <<>>)
    ELSE Thrown("format_exception")

\* protozero::decode_zigzag64
decode_zigzag64(v) == IF v % 2 = 0 THEN v \div 2 ELSE -((v + 1) \div 2)

\* A property_map object: the index range m_properties, whether its begin()
\* differs from a default constructed iterator (begun), the offset of
\* m_property_iterator in the range and m_num_properties.
\* property_map() and property_map(layer)
empty_property_map ==
    [m_properties |-> <<>>, begun |-> FALSE,
     m_property_iterator |-> 0, m_num_properties |-> 0]

\* An operation on a map gives what it returned or threw and the map after it.
Did(result, pm) == [out |-> result, pm |-> pm]

\* set_size() without the test for unpaired indexes
set_size_of_any(pm) ==
    Did(NoResult, [pm EXCEPT !.m_num_properties = Len(pm.m_properties) \div 2])

\* set_size()
set_size(pm) ==
    IF Len(pm.m_properties) % 2 # 0
    THEN Did(Thrown("format_exception"), pm)
    ELSE Did(NoResult, [pm EXCEPT !.m_num_properties = Len(pm.m_properties) \div 2])

\* property_map(layer, properties), as an operation on the members it sets
construct_property_map(properties) ==
    set_size([empty_property_map EXCEPT !.m_properties = properties, !.begun = TRUE])

\* initialize(properties)
initialize(pm, properties) ==
    IF pm.begun
    THEN Did(Thrown("format_exception"), pm)
    ELSE set_size([pm EXCEPT !.m_properties = properties, !.begun = TRUE,
                             !.m_property_iterator = 0])

\* index_value::invalid_value, the number of a default constructed index_value
invalid_value == UInt32Mod - 1

\* index_value_pair{key, value} with its valid(), and the two numbers
index_value_pair(key, value) ==
    Value("index_value_pair",
          IF key # invalid_value /\ value # invalid_value THEN 1 ELSE 0,
          <<key, value>>)

\* next_indexes() with the iterator moved on by one index only
next_indexes_overlapping(pm) ==
    LET i == pm.m_property_iterator
        n == Len(pm.m_properties)
    IN  IF i = n
        THEN Did(index_value_pair(invalid_value, invalid_value), pm)
        ELSE IF i + 1 = n
        THEN Did(Thrown("end_of_buffer_exception"), [pm EXCEPT !.m_property_iterator = n])
        ELSE Did(index_value_pair(pm.m_properties[i + 1], pm.m_properties[i + 2]),
                 [pm EXCEPT !.m_property_iterator = i + 1])

\* next_indexes(). The iterator is protozero's const_uint32_iterator, whose
\* increment at the end of its range throws end_of_buffer_exception and
\* leaves it there.
next_indexes(pm) ==
    LET i == pm.m_property_iterator
        n == Len(pm.m_properties)
    IN  IF i = n
        THEN Did(index_value_pair(invalid_value, invalid_value), pm)
        ELSE IF i + 1 = n
        THEN Did(Thrown("end_of_buffer_exception"), [pm EXCEPT !.m_property_iterator = n])
        ELSE Did(index_value_pair(pm.m_properties[i + 1], pm.m_properties[i + 2]),
                 [pm EXCEPT !.m_property_iterator = i + 2])

\* reset()
reset(pm) == [pm EXCEPT !.m_property_iterator = 0]

\* property_map(layer, properties) as map_value() returns it
property_map(properties) ==
    LET made == construct_property_map(properties)
    IN  IF made.out # NoResult THEN made.out
        ELSE Value("property_map", made.pm.m_num_properties, properties)

property_list(properties) == Value("property_list", Len(properties), properties)

\* get_value_impl(value_message, T()) on the field the message stands at
get_value_impl(field, T) ==
    CASE T = 1 -> Value("data_view", 0, field.s)
      [] T = 2 -> Value("float", field.n, <<>>)
      [] T = 3 -> Value("double", field.n, <<>>)
      [] T = 4 -> Value("int64_t", WrapInt64(field.n), <<>>)
      [] T = 5 -> Value("uint64_t", field.n, <<>>)
      [] T = 6 -> Value("int64_t", decode_zigzag64(field.n), <<>>)
      [] T = 7 -> Value("bool", IF field.n # 0 THEN 1 ELSE 0, <<>>)
      [] T = 8 -> property_map(field.s)
      [] T = 9 -> property_list(field.s)

\* the loop of get_value<T>(): result and has_result after the fields from i on
RECURSIVE get_value_loop(_, _, _, _)
get_value_loop(fields, i, T, result) ==
    IF i > Len(fields) THEN result
    ELSE IF fields[i].tag = T /\ fields[i].wire = wire_type(T)
    THEN IF get_value_impl(fields[i], T).kind # "value"
         THEN get_value_impl(fields[i], T)
         ELSE get_value_loop(fields, i + 1, T, get_value_impl(fields[i], T))
    ELSE get_value_loop(fields, i + 1, T, result)

\* a get_value<T>() that returns the empty result in place of the exception
get_value_or_default(pv, T) ==
    IF ~pv.valid THEN Thrown("assertion")
    ELSE IF get_value_loop(pv.m_value, 1, T, NoResult) = NoResult
    THEN get_value_impl(ValueField(T, wire_type(T), 0, <<>>), T)
    ELSE get_value_loop(pv.m_value, 1, T, NoResult)

get_value(pv, T) ==
    IF ~pv.valid THEN Thrown("assertion")
    ELSE IF get_value_loop(pv.m_value, 1, T, NoResult) = NoResult
    THEN Thrown("type_exception")
    ELSE get_value_loop(pv.m_value, 1, T, NoResult)

\* the accessor of each case of the switch in apply_visitor
visited_accessor(t) ==
    CASE t = 1 -> 1
      [] t = 2 -> 2
      [] t = 3 -> 3
      [] t = 4 -> 4
      [] t = 5 -> 5
      [] t = 6 -> 6
      [] t = 8 -> 8
      [] t = 9 -> 8
      [] OTHER -> 7

\* apply_visitor(visitor, value): how it is left and the visitor's calls
apply_visitor(pv) ==
    IF type(pv).kind # "value" THEN [out |-> type(pv), visits |-> <<>>]
    ELSE IF get_value(pv, visited_accessor(type(pv).n)).kind # "value"
    THEN [out |-> get_value(pv, visited_accessor(type(pv).n)), visits |-> <<>>]
    ELSE [out |-> Value("visited", 0, <<>>),
          visits |-> <<get_value(pv, visited_accessor(type(pv).n))>>]

property_value(data) ==
    [mode |-> "value", valid |-> TRUE, m_value |-> data,
     f |-> "", T |-> 0, ret |-> NoResult, visits |-> <<>>]

\* property_value(): m_value.data() is the null pointer
invalid_property_value == [property_value(<<>>) EXCEPT !.valid = FALSE]

notReader ==
    <<bldVars, stream, knots, dims, op, dec, loc, dpc, calls, outcome, script, tile, geom>>

\* value.type()
Type ==
    /\ reader.mode = "value" /\ reader.f = ""
    /\ reader' = [reader EXCEPT !.f = "type", !.ret = type(reader)]
    /\ UNCHANGED notReader

\* value.string_value() ... value.list_value()
GetValue ==
    \E T \in 1..9 :
        /\ reader.mode = "value" /\ reader.f = ""
        /\ reader' = [reader EXCEPT !.f = "get_value", !.T = T, !.ret = get_value(reader, T)]
        /\ UNCHANGED notReader

ApplyVisitor ==
    /\ reader.mode = "value" /\ reader.f = ""
    /\ reader' = [reader EXCEPT !.f = "apply_visitor",
                                !.ret = apply_visitor(reader).out,
                                !.visits = apply_visitor(reader).visits]
    /\ UNCHANGED notReader

ValueInit ==
    /\ reader \in {property_value(data) : data \in ValueRecords} \cup {invalid_property_value}
    /\ geom = NoGeom
    /\ script = NoScript
    /\ tile = NoTile
    /\ layer = layer_builder_impl
    /\ fb = NoBuilder
    /\ scope = "none"
    /\ bout = Running
    /\ hist = NoHist
    /\ stream = <<>>
    /\ knots = NoKnots
    /\ dims = 2
    /\ op = "point"
    /\ dec = geometry_decoder(0)
    /\ loc = NoLocals
    /\ dpc = "done"
    /\ calls = <<>>
    /\ outcome = Returned

ValueNext ==
    \/ Type
    \/ GetValue
    \/ ApplyVisitor

ValueSpec == ValueInit /\ [][ValueNext]_vars

\* ------------------------------------------- claims on the property value
\* the wire type a value of each kind is written with
KindWire(kind) ==
    CASE kind \in {1, 8, 9} -> "length_delimited"
      [] kind = 2 -> "fixed32"
      [] kind = 3 -> "fixed64"
      [] kind \in 4..7 -> "varint"
      [] OTHER -> "none"

\* a value record as the format has it: exactly one field, of a kind
WellFormed ==
    /\ reader.valid
    /\ Len(reader.m_value) = 1
    /\ reader.m_value[1].tag \in 1..9
    /\ reader.m_value[1].wire = KindWire(reader.m_value[1].tag)

KindOfValue == reader.m_value[1].tag

\* C21: apply_visitor calls the visitor exactly once, with the value that
\* the accessor of the value's kind returns, for each of the nine kinds.
C21_ApplyVisitor ==
    (reader.mode = "value" /\ reader.f = "apply_visitor" /\ WellFormed
        /\ get_value(reader, KindOfValue).kind = "value")
    => reader.visits = <<get_value(reader, KindOfValue)>>

\* C21 for the kinds other than list
C21_ApplyVisitorExceptList ==
    (reader.mode = "value" /\ WellFormed /\ KindOfValue # 9) => C21_ApplyVisitor

\* the visitor got the zig-zag decoded number of a sint value
C21_WitnessExceptList ==
    /\ reader.mode = "value" /\ reader.f = "apply_visitor" /\ WellFormed
    /\ KindOfValue = 6 /\ reader.m_value[1].n = 3
    /\ reader.visits = <<Value("int64_t", -2, <<>>)>>

C23_TypeOfValue ==
    (reader.mode = "value" /\ reader.f = "type" /\ reader.valid)
    => IF reader.m_value = <<>>
       THEN reader.ret = Thrown("format_exception")
       ELSE IF reader.m_value[1].tag \notin 1..9
               \/ reader.m_value[1].wire # KindWire(reader.m_value[1].tag)
       THEN reader.ret = Thrown("format_exception")
       ELSE reader.ret = Value("property_value_type", reader.m_value[1].tag, <<>>)

\* a value with the tag of a string and the encoding of an int
C23_Witness ==
    /\ reader.mode = "value" /\ reader.f = "type"
    /\ reader.m_value = <<ValueField(1, "varint", 1, <<>>)>>
    /\ reader.ret = Thrown("format_exception")

\* ---------------------------------------------- the properties of a feature
\* A layer being read: its key table and value table, its feature records
\* (each the sequence of the tags fields it holds, a tags field being a
\* packed sequence of indexes), the number of feature records already read,
\* and the property map in hand with who made it.
MaxMapCalls == 4

MaxIndexes == 3

\* the largest index is beyond every table
Indexes == 0..2

KeyTables == {<<11>>, <<11, 12>>}

ValueTables == {<<>>, <<21>>}

IndexStreams == UNION {[1..n -> Indexes] : n \in 0..MaxIndexes}

\* the ranges handed to a property map directly
ArgStreams == {<<1>>, <<0, 0>>, <<2, 0, 1>>, <<0, 1, 2, 0>>, <<invalid_value, 0, 1, 1>>}

\* a feature record with no tags field, with one, and with two
FeatureRecords ==
    {<<>>} \cup {<<s>> : s \in IndexStreams} \cup {<<s, <<0, 0>>>> : s \in {<<1>>, <<0, 0>>}}

\* the feature records after the first one of the layer
LaterFeatures == {<< <<<<0, 0, 1, 0>>>> >>}

\* property_map::next(): the next pair of indexes, resolved in the tables of
\* the layer; an invalid property at the end
next(pm, keys, values) ==
    LET r == next_indexes(pm)
    IN  IF r.out.kind # "value" THEN r
        ELSE IF r.out.n = 0 THEN Did(Value("property", 0, <<>>), r.pm)
        ELSE IF r.out.s[1] >= Len(keys) \/ r.out.s[2] >= Len(values)
        THEN Did(Thrown("out_of_range_exception"), r.pm)
        ELSE Did(Value("property", 1, <<keys[r.out.s[1] + 1], values[r.out.s[2] + 1]>>), r.pm)

\* the feature constructor: initialize() for every tags field of the record
RECURSIVE read_tags(_, _, _)
read_tags(pm, fields, i) ==
    IF i > Len(fields) THEN Did(NoResult, pm)
    ELSE LET r == initialize(pm, fields[i])
         IN  IF r.out # NoResult THEN r ELSE read_tags(r.pm, fields, i + 1)

\* the layer as opened, with a default constructed property map in hand
layer_reader(keys, values, features) ==
    [mode |-> "map", keys |-> keys, values |-> values, features |-> features,
     read |-> 0, pm |-> empty_property_map, owner |-> "map",
     raised |-> 0, lost |-> FALSE,
     f |-> "", arg |-> <<>>, ret |-> NoResult, ncalls |-> 0]

Mapping == reader.mode = "map" /\ reader.ncalls < MaxMapCalls

Did2(f, arg, ret) ==
    [reader EXCEPT !.f = f, !.arg = arg, !.ret = ret, !.ncalls = @ + 1]

\* layer.next_feature(): an invalid feature after the last record; a record
\* whose tags make the feature constructor throw is passed over and no
\* feature is returned
NextFeature ==
    /\ Mapping
    /\ LET lost == reader.lost \/ reader.raised > 0
       IN  IF reader.read >= Len(reader.features)
           THEN reader' = [Did2("next_feature", <<>>, Value("feature", 0, <<>>))
                              EXCEPT !.pm = empty_property_map, !.owner = "feature",
                                     !.raised = 0, !.lost = lost]
           ELSE LET r == read_tags(empty_property_map, reader.features[reader.read + 1], 1)
                IN  IF r.out # NoResult
                    THEN reader' = [Did2("next_feature", <<>>, r.out)
                                       EXCEPT !.read = @ + 1]
                    ELSE reader' = [Did2("next_feature", <<>>, Value("feature", 1, <<>>))
                                       EXCEPT !.read = @ + 1, !.pm = r.pm,
                                              !.owner = "feature",
                                              !.raised = 0, !.lost = lost]
    /\ UNCHANGED notReader

\* feature.next_property(), property_map::next()
NextProperty ==
    /\ Mapping
    /\ LET r == next(reader.pm, reader.keys, reader.values)
       IN  reader' = [Did2("next_property", <<>>, r.out)
                         EXCEPT !.pm = r.pm,
                                !.raised = IF r.out.kind = "out_of_range_exception"
                                           THEN @ + 1 ELSE @]
    /\ UNCHANGED notReader

\* feature.next_property_indexes(), property_map::next_indexes()
NextPropertyIndexes ==
    /\ Mapping
    /\ LET r == next_indexes(reader.pm)
       IN  reader' = [Did2("next_property_indexes", <<>>, r.out) EXCEPT !.pm = r.pm]
    /\ UNCHANGED notReader

\* feature.reset_property(), property_map::reset()
ResetProperty ==
    /\ Mapping
    /\ reader' = [Did2("reset_property", <<>>, Value("void", 0, <<>>))
                     EXCEPT !.pm = reset(reader.pm)]
    /\ UNCHANGED notReader

\* property_map pm{layer};
PropertyMapOfLayer ==
    /\ Mapping
    /\ reader' = [Did2("property_map", <<>>, Value("property_map", 0, <<>>))
                     EXCEPT !.pm = empty_property_map, !.owner = "map", !.raised = 0]
    /\ UNCHANGED notReader

\* property_map pm{layer, properties}; nothing is constructed when it throws
PropertyMapOfRange ==
    \E properties \in ArgStreams :
        /\ Mapping
        /\ LET r == construct_property_map(properties)
           IN  IF r.out # NoResult
               THEN reader' = Did2("property_map", properties, r.out)
               ELSE reader' = [Did2("property_map", properties,
                                    Value("property_map", r.pm.m_num_properties, <<>>))
                                  EXCEPT !.pm = r.pm, !.owner = "map", !.raised = 0]
        /\ UNCHANGED notReader

\* pm.initialize(properties) on a map of the caller's
Initialize ==
    \E properties \in ArgStreams :
        /\ Mapping
        /\ reader.owner = "map"
        /\ LET r == initialize(reader.pm, properties)
           IN  reader' = [Did2("initialize", properties,
                               IF r.out # NoResult THEN r.out ELSE Value("void", 0, <<>>))
                             EXCEPT !.pm = r.pm]
        /\ UNCHANGED notReader

PropInit ==
    /\ reader \in {layer_reader(keys, values, <<first>> \o later) :
                      keys \in KeyTables, values \in ValueTables,
                      first \in FeatureRecords, later \in LaterFeatures}
    /\ geom = NoGeom
    /\ script = NoScript
    /\ tile = NoTile
    /\ layer = layer_builder_impl
    /\ fb = NoBuilder
    /\ scope = "none"
    /\ bout = Running
    /\ hist = NoHist
    /\ stream = <<>>
    /\ knots = NoKnots
    /\ dims = 2
    /\ op = "point"
    /\ dec = geometry_decoder(0)
    /\ loc = NoLocals
    /\ dpc = "done"
    /\ calls = <<>>
    /\ outcome = Returned

PropNext ==
    \/ NextFeature
    \/ NextProperty
    \/ NextPropertyIndexes
    \/ ResetProperty
    \/ PropertyMapOfLayer
    \/ PropertyMapOfRange
    \/ Initialize

PropSpec == PropInit /\ [][PropNext]_vars

\* ------------------------------------------ claims on the property map
\* the step of a call of f on the layer or the map in hand
MapStep(f) ==
    /\ reader.mode = "map"
    /\ reader'.ncalls = reader.ncalls + 1
    /\ reader'.f = f

\* the feature in hand has a pair of indexes left
HasNextPair ==
    /\ reader.owner = "feature"
    /\ reader.pm.m_property_iterator + 2 <= Len(reader.pm.m_properties)

NextKey == reader.pm.m_properties[reader.pm.m_property_iterator + 1]

NextValue == reader.pm.m_properties[reader.pm.m_property_iterator + 2]

TableRange(table) == {table[i] : i \in 1..Len(table)}

C24_WitnessNextFeature ==
    /\ reader.mode = "map" /\ reader.owner = "feature"
    /\ reader.lost /\ reader.read = 2
    /\ reader.f = "next_property"
    /\ reader.ret = Value("property", 1, <<11, 21>>)

\* C25: property_map(layer, properties) and initialize(properties) raise a
\* format error when the number of indexes is odd; when it is even and the
\* call returns, size() is half the number of indexes.
C25_UnpairedIndexes ==
    (reader.mode = "map" /\ reader.f \in {"property_map", "initialize"})
    => IF Len(reader.arg) % 2 # 0
       THEN reader.ret = Thrown("format_exception")
       ELSE reader.ret.kind = "value"
            => /\ reader.pm.m_properties = reader.arg
               /\ reader.pm.m_num_properties = Len(reader.arg) \div 2

\* initialize() with three indexes threw
C25_WitnessOdd ==
    /\ reader.mode = "map" /\ reader.f = "initialize"
    /\ reader.arg = <<2, 0, 1>>
    /\ reader.ret = Thrown("format_exception")

\* the constructor with two indexes made a map of size 1
C25_WitnessEven ==
    /\ reader.mode = "map" /\ reader.f = "property_map"
    /\ reader.arg = <<0, 0>>
    /\ reader.ret.kind = "value"
    /\ reader.pm.m_num_properties = 1

\* ---------------------------------------------------------------- C31
\* the command id that the running decode function asks next_command for in
\* its next step, 0 when that step is no next_command
ExpectedCommand ==
    IF outcome # Running THEN 0
    ELSE IF dpc = "start" THEN 1
    ELSE IF dpc = "lineto" THEN 2
    ELSE IF op = "polygon" /\ dpc = "ring" /\ count(dec) = 0 THEN 7
    ELSE 0

IdNames == <<"1", "2", "3", "4", "5", "6", "7">>

IdName(id) == IF id = 0 THEN "0" ELSE IdNames[id]

ExpectedButGot(e, g) ==
    geometry_exception("expected command " \o IdName(e) \o " but got " \o IdName(g))

\* C31: when a decode function expects command id E and the stream is not
\* at its end and its next integer has another command id G, the function
\* is left with the geometry error "expected command E but got G", the
\* integer is not consumed and no call is made on the handler; and a
\* decode function that has ended on a stream whose first integer is a
\* ClosePath has ended with "expected command 1 but got 7".
C31_ExpectedCommand ==
    [][/\ (ExpectedCommand # 0 /\ dec.m_it < m_end
             /\ get_command_id(stream[dec.m_it]) # ExpectedCommand)
          => /\ outcome' = ExpectedButGot(ExpectedCommand, get_command_id(stream[dec.m_it]))
             /\ dec'.m_it = dec.m_it
             /\ calls' = calls
       /\ (dpc' = "done" /\ op \in {"point", "linestring", "polygon", "spline"}
             /\ stream # <<>> /\ get_command_id(stream[1]) = 7)
          => /\ outcome' = geometry_exception("expected command 1 but got 7")
             /\ calls' = <<>>
      ]_vars

\* a linestring decoder that had read a MoveTo and its point met a MoveTo
C31_Witness ==
    /\ op = "linestring"
    /\ outcome = geometry_exception("expected command 2 but got 1")
    /\ dec.m_it = 1 + 1 + dims
    /\ dec.m_it < m_end

\* ---------------------------------------------------------------- C32
\* C32: on an empty geometry stream decode_linestring, decode_polygon and
\* decode_spline return in their first step, without an error, and no call
\* is ever made on the handler, whatever the knots are.
C32_EmptyGeometry ==
    [][(stream = <<>> /\ op \in {"linestring", "polygon", "spline"})
          => /\ calls' = <<>>
             /\ outcome = Running => (outcome' = Returned /\ dpc' = "done")
             /\ outcome # Running => outcome' = Returned
      ]_vars

\* decode_spline has returned from an empty geometry that came with knots
C32_Witness ==
    /\ stream = <<>> /\ op = "spline" /\ knots.vals # <<>>
    /\ dpc = "done" /\ outcome = Returned /\ calls = <<>>

\* ---------------------------------------------------------------- C33
BeginCalls == {"points_begin", "linestring_begin", "controlpoints_begin", "ring_begin"}

\* the next step asks for a MoveTo or a LineTo and the stream has one whose
\* count is above m_max_count
CountTooLarge ==
    /\ ExpectedCommand \in {1, 2}
    /\ dec.m_it < m_end
    /\ get_command_id(stream[dec.m_it]) = ExpectedCommand
    /\ get_command_count(stream[dec.m_it]) > dec.m_max_count

\* C33: a MoveTo or LineTo whose count is above the maximum the decoder was
\* constructed with ends the decode function with the geometry error
\* "Max count too large" and no handler call is made for it; every count
\* that a begin callback got is at most that maximum plus 2.
C33_MaxCount ==
    [][/\ CountTooLarge
          => /\ outcome' = geometry_exception("Max count too large")
             /\ calls' = calls
       /\ \A i \in 1..Len(calls') :
             calls'[i].f \in BeginCalls => calls'[i].a <= dec'.m_max_count + 2
      ]_vars

\* a LineTo with too large a count was refused after the MoveTo and its point
C33_Witness ==
    /\ outcome = geometry_exception("Max count too large")
    /\ dec.m_it < m_end
    /\ get_command_id(stream[dec.m_it]) = 2
    /\ get_command_count(stream[dec.m_it]) > dec.m_max_count
    /\ calls = <<>>

\* ---------------------------------------------------------------- C34
\* the integer written last to the layer's buffer
LastWritten == layer.m_data[Len(layer.m_data)].v

\* the command id and the count that the command written last was meant to
\* carry: by add_points(n), or by the first set_point() after
\* add_linestring(n) or add_ring(n); id 0 when no command was written last
Intended ==
    IF bout # Running \/ scope # "live" THEN [id |-> 0, count |-> 0]
    ELSE IF hist.f = "add_points" THEN [id |-> 1, count |-> hist.arg]
    ELSE IF hist.f = "set_point" /\ hist.made = 1 /\ fb.kind = "linestring"
    THEN [id |-> 2, count |-> hist.ann - 1]
    ELSE IF hist.f = "set_point" /\ hist.made = 1 /\ fb.kind = "polygon"
    THEN [id |-> 2, count |-> hist.ann - 2]
    ELSE [id |-> 0, count |-> 0]

\* C34: the command integer that a builder writes for an accepted
\* add_points(n), add_linestring(n) or add_ring(n) has the intended command
\* id and, as its count, n, n - 1 and n - 2.
C34_CommandCount ==
    Intended.id # 0
    => /\ get_command_id(LastWritten) = Intended.id
       /\ get_command_count(LastWritten) = Intended.count

\* C34 for the counts that the count field can hold
C34_CommandCountInRange ==
    Intended.count <= max_command_count => C34_CommandCount

\* a linestring of three points got a LineTo with the count 2
C34_WitnessInRange ==
    /\ Intended = [id |-> 2, count |-> 2]
    /\ fb.kind = "linestring"
    /\ LastWritten = command_line_to(2)

\* ---------------------------------------------------------------- C35
\* the layers that were added to the tile builder, in the order of the
\* calls: the layers fields of the input before the reading position
RECURSIVE AddedLayers(_, _)
AddedLayers(b, pos) ==
    IF pos >= tile.pos \/ ~next_layer(b, pos).found THEN <<>>
    ELSE <<next_layer(b, pos).data>> \o AddedLayers(b, next_layer(b, pos).pos)

\* a layer framed as a field of the tile: key byte 0x1a, length, bytes
Framed(data) == <<26, Len(data)>> \o data

RECURSIVE FramedAll(_)
FramedAll(ls) == IF ls = <<>> THEN <<>> ELSE Framed(Head(ls)) \o FramedAll(Tail(ls))

\* the bytes that the last serialize(buffer) appended
Appended == SubSeq(tile.out, Len(tile.pre) + 1, Len(tile.out))

SerializeToStep == tile.mode = "copy" /\ tile'.f = "serialize_to" /\ tile'.ncalls = tile.ncalls + 1

\* C35: serialize(buffer) keeps what the buffer held as a prefix and appends
\* the framed layers in the order in which they were added; it leaves the
\* tile builder as it was, and a second serialize() right after the first
\* appends the same bytes.
C35_SerializeAppends ==
    [][SerializeToStep
          => /\ SubSeq(tile'.out, 1, Len(tile'.pre)) = tile'.pre
             /\ SubSeq(tile'.out, Len(tile'.pre) + 1, Len(tile'.out))
                   = FramedAll(AddedLayers(tile.input, 1))
             /\ tile'.m_layers = tile.m_layers
             /\ tile.f = "serialize_to"
                   => SubSeq(tile'.out, Len(tile'.pre) + 1, Len(tile'.out)) = Appended
      ]_vars

\* two different layers were appended, in their order, to a buffer that
\* held two bytes
C35_Witness ==
    /\ tile.mode = "copy" /\ tile.f = "serialize_to"
    /\ tile.pre = <<255, 0>>
    /\ tile.out = <<255, 0, 26, 2, 10, 1, 26, 3, 10, 1, 120>>
    /\ tile.ncalls = 2

\* ---------------------------------------------------------------- C36
\* the map in hand was constructed or initialized without an error
Constructed ==
    /\ reader.mode = "map"
    /\ Len(reader.pm.m_properties) = 2 * reader.pm.m_num_properties

\* the number of pairs that the calls of next_indexes() have passed since
\* the beginning of the map
PairsPassed == reader.pm.m_property_iterator \div 2

\* what a call of next_indexes() and a call of reset() do to a map that
\* was constructed
NextIndexesInOrder ==
    /\ (MapStep("next_property_indexes") /\ Constructed)
       => /\ reader.pm.m_property_iterator = 2 * PairsPassed
          /\ IF PairsPassed < reader.pm.m_num_properties
             THEN /\ reader'.ret.kind = "value"
                  /\ reader'.ret.n = 1
                  /\ reader'.ret.s = <<reader.pm.m_properties[2 * PairsPassed + 1],
                                       reader.pm.m_properties[2 * PairsPassed + 2]>>
                  /\ reader'.pm = [reader.pm EXCEPT !.m_property_iterator = @ + 2]
             ELSE /\ reader'.ret.kind = "value"
                  /\ reader'.ret.n = 0
                  /\ reader'.pm = reader.pm
    /\ (MapStep("reset_property") /\ Constructed)
       => reader'.pm = [reader.pm EXCEPT !.m_property_iterator = 0]

\* C36: on a property map, the call of next_indexes() that follows k
\* earlier ones since the construction or the last reset() returns the pair
\* k + 1 of the stream as a valid pair when k < size(), and an invalid pair
\* when k >= size(), after which the same holds again; reset() at any
\* point makes the next call the first one.
C36_NextIndexes == [][NextIndexesInOrder]_vars

\* no index of the map is the number that index_value keeps for "invalid"
NoInvalidIndex ==
    \A i \in 1..Len(reader.pm.m_properties) : reader.pm.m_properties[i] # UInt32Mod - 1

\* C36 for the streams that do not hold the index 2^32 - 1
C36_NextIndexesBelowMax ==
    [][(reader.mode = "map" /\ NoInvalidIndex) => NextIndexesInOrder]_vars

\* the second pair of a map of two pairs was returned
C36_WitnessBelowMax ==
    /\ reader.mode = "map" /\ reader.f = "next_property_indexes"
    /\ reader.pm.m_properties = <<0, 1, 2, 0>>
    /\ reader.pm.m_num_properties = 2
    /\ reader.pm.m_property_iterator = 4
    /\ reader.ret = index_value_pair(2, 0)
    /\ reader.ret.n = 1

\* ---------------------------------------------------------------- C37
\* The decode function keeps running: a step of it that can be taken is
\* taken at some time.
DecFairSpec == DecInit /\ [][DecNext]_vars /\ WF_vars(DecNext)

\* the read position does not go back
ReadsForward == dec'.m_it >= dec.m_it

\* C37: every decode function comes to its end, with its result or with a
\* geometry error, and the read position never decreases on the way.
C37_TerminatesForward ==
    /\ <>(dpc = "done")
    /\ [](dpc = "done" => outcome.kind \in {"ok", "geometry_exception"})
    /\ [][ReadsForward]_vars

\* C37 without the kind of the end: every decode function comes to an end,
\* and the read position never decreases on the way.
C37_EndsForward ==
    /\ <>(dpc = "done")
    /\ [][ReadsForward]_vars

\* decode_polygon has returned after it read a whole ring of four points
C37_WitnessEnds ==
    /\ op = "polygon" /\ dpc = "done" /\ outcome = Returned
    /\ dec.m_it = m_end
    /\ Len(stream) >= 8

\* ---------------------------------------------------------------- C38
\* a feature record is appended to the layer and the feature count grows
FeatureCommitted == layer'.m_num_features = layer.m_num_features + 1

\* the set_point calls made for the last add_points, add_linestring or
\* add_ring of the feature are as many as it announced
LastElementComplete == hist.made = hist.ann

\* C38: whenever a feature is committed, by commit() or at scope exit, as
\* many set_point calls were made for its geometry element as the element
\* announced.
C38_CommittedComplete == [][FeatureCommitted => LastElementComplete]_vars

\* C38 for the commit made at scope exit
C38_ScopeExitComplete ==
    [][FeatureCommitted /\ hist'.f = "scope_exit" => LastElementComplete]_vars

\* a feature with a linestring of two points was committed at scope exit
C38_WitnessScopeExit ==
    /\ hist.f = "scope_exit" /\ hist.term = "committed" /\ hist.commits = 0
    /\ fb.kind = "linestring" /\ hist.ann = 2 /\ hist.made = 2
    /\ layer.m_num_features = 1

\* ---------------------------------------------------------------- C39
\* C39: in no decode of any stream is next_command entered with a pending
\* count other than 0 or next_point entered with a pending count of 0.
C39_Preconditions ==
    /\ outcome # AssertFailed("m_count == 0")
    /\ outcome # AssertFailed("m_count > 0")

\* decode_linestring returned after two linestrings, i.e. after
\* next_command was entered five times and next_point four times
C39_Witness ==
    /\ op = "linestring" /\ dpc = "done" /\ outcome = Returned
    /\ dec.m_count = 0 /\ dec.m_it = m_end
    /\ Len(SelectSeq(calls, LAMBDA c : c.f = "linestring_end")) = 2

\* ============================================ the names of the type values
MaxNameCalls == 2

\* enum class GeomType: UNKNOWN, POINT, LINESTRING, POLYGON, SPLINE
GeomType == 0..4

\* enum class property_value_type: string_value = 1 ... list_value = 9
property_value_type == 1..9

\* What reading a const char* past the end of a static array yields: the
\* read faults, or the bytes that follow are taken for a pointer to a name.
GarbageNames == {"", "garbage"}

\* names[static_cast<int>(type)] of a table of C strings, the first at index 0
names_at(names, t) ==
    IF t + 1 \in 1..Len(names)
    THEN {[name |-> names[t + 1], out |-> Running]}
    ELSE {[name |-> "", out |-> Undefined("read past the end of names")]}
         \cup {[name |-> g, out |-> Running] : g \in GarbageNames}

geom_type_names == <<"unknown", "point", "linestring", "polygon">>

geom_type_name(t) == names_at(geom_type_names, t)

property_value_type_names ==
    <<"", "string", "float", "double", "int", "uint", "sint", "bool">>

property_value_type_name(t) == names_at(property_value_type_names, t)

\* ---- a program that prints the names of type values (debug output)
name_printer == [mode |-> "names", f |-> "", arg |-> 0, ret |-> "", out |-> Running, log |-> <<>>]

Printed(f, t, r) ==
    [reader EXCEPT !.f = f, !.arg = t, !.ret = r.name, !.out = r.out,
                   !.log = IF r.out = Running THEN Append(@, r.name) ELSE @]

GeomTypeName ==
    \E t \in GeomType :
        \E r \in geom_type_name(t) :
            /\ reader.mode = "names" /\ reader.out = Running
            /\ Len(reader.log) < MaxNameCalls
            /\ reader' = Printed("geom_type_name", t, r)
            /\ UNCHANGED notReader

PropertyValueTypeName ==
    \E t \in property_value_type :
        \E r \in property_value_type_name(t) :
            /\ reader.mode = "names" /\ reader.out = Running
            /\ Len(reader.log) < MaxNameCalls
            /\ reader' = Printed("property_value_type_name", t, r)
            /\ UNCHANGED notReader

NameInit ==
    /\ reader = name_printer
    /\ geom = NoGeom
    /\ script = NoScript
    /\ tile = NoTile
    /\ layer = layer_builder_impl
    /\ fb = NoBuilder
    /\ scope = "none"
    /\ bout = Running
    /\ hist = NoHist
    /\ stream = <<>>
    /\ knots = NoKnots
    /\ dims = 2
    /\ op = "point"
    /\ dec = geometry_decoder(0)
    /\ loc = NoLocals
    /\ dpc = "done"
    /\ calls = <<>>
    /\ outcome = Returned

NameNext ==
    \/ GeomTypeName
    \/ PropertyValueTypeName

NameSpec == NameInit /\ [][NameNext]_vars

\* ---------------------------------------------------------------- C40
\* the number of entries of the table a function reads
TableSize(f) ==
    IF f = "geom_type_name" THEN Len(geom_type_names) ELSE Len(property_value_type_names)

NameCalled == reader.mode = "names" /\ reader.f # ""

\* C40: each of the two functions returns a name for every value of its
\* t, read from an entry inside its name table.
C40_NameInsideTable ==
    NameCalled => reader.out = Running /\ reader.arg < TableSize(reader.f)

\* the names of the model, by function and value
NameOf(f, t) ==
    IF f = "geom_type_name"
    THEN CASE t = 0 -> "unknown" [] t = 1 -> "point" [] t = 2 -> "linestring"
           [] t = 3 -> "polygon" [] OTHER -> "spline"
    ELSE CASE t = 1 -> "string" [] t = 2 -> "float" [] t = 3 -> "double"
           [] t = 4 -> "int" [] t = 5 -> "uint" [] t = 6 -> "sint"
           [] t = 7 -> "bool" [] t = 8 -> "map" [] OTHER -> "list"

\* C40 for the values below SPLINE and below map_value: the function returns
\* the name of the value, read inside its table.
C40_NameOfOlderTypes ==
    NameCalled /\ reader.arg < TableSize(reader.f) =>
        reader.out = Running /\ reader.ret = NameOf(reader.f, reader.arg)

\* the names of POLYGON and of bool_value were printed one after the other
C40_WitnessOlderTypes ==
    /\ NameCalled /\ reader.f = "property_value_type_name" /\ reader.arg = 7
    /\ reader.log = <<"polygon", "bool">>

====
